---- MODULE Spec2Model ----
(***************************************************************************)
(* A model of olli's accessibility-tree construction                       *)
(* (packages/core/src/Structure/index.ts): the interval binner             *)
(* axisValuesToIntervals, the data filter filterInterval and the           *)
(* recursive tree builder olliVisSpecToNode / olliVisSpecToTree.           *)
(*                                                                         *)
(* JavaScript values are tagged records, so that the conversions the code  *)
(* performs (String(v), Number(s), Date.getTime(), new Date(n)) are        *)
(* computed and never the identity:                                        *)
(*    [num |-> n]   a number (the model has integers only)                 *)
(*    [str |-> s]   a string                                               *)
(*    [date |-> t]  a Date whose getTime() is t                            *)
(*    NaN, Undefined, InvalidDate                                          *)
(* Time is counted in days since the epoch instead of milliseconds: every  *)
(* use the binner makes of a time (differences, sums, order, === 0) is     *)
(* invariant under that change of unit.                                    *)
(***************************************************************************)
EXTENDS Integers, Sequences, FiniteSets, TLC

VARIABLES
    olliVisSpec,   \* the argument of olliVisSpecToTree
    tree,          \* what olliVisSpecToTree returned (NotCalled before the call)
    values,        \* the argument of axisValuesToIntervals
    intervals,     \* what axisValuesToIntervals returned (NotCalled before)
    settingsData,  \* the parsed 'settingsData' item of localStorage
    dropdowns,     \* the <level>-verbosity select of each hierarchy level
    described,     \* the last call of getDescriptionWithSettings
    keylog,        \* the key log of the tree's keydown handler
    sinceLastPress,\* seconds from lastTimePressed to now
    focus,         \* document.activeElement: a position in the tree, 0 the menu
    handled        \* the last run of the keydown handler of the tree

vars == <<olliVisSpec, tree, values, intervals, settingsData, dropdowns, described,
         keylog, sinceLastPress, focus, handled>>

keyVars == <<keylog, sinceLastPress, focus, handled>>

NotCalled == [status |-> "notCalled"]
Thrown == [status |-> "thrown"]

-----------------------------------------------------------------------------
(* JavaScript values *)

Num(n) == [num |-> n]
Str(s) == [str |-> s]
DateOf(t) == [date |-> t]
NaN == [nan |-> TRUE]
Undefined == [undef |-> TRUE]
InvalidDate == [invalidDate |-> TRUE]

IsNum(v) == "num" \in DOMAIN v
IsStr(v) == "str" \in DOMAIN v
IsDate(v) == "date" \in DOMAIN v \/ v = InvalidDate

\* array[i] with a 0-based index; out of range reads undefined
At(array, i) == IF i >= 0 /\ i < Len(array) THEN array[i + 1] ELSE Undefined

\* Array.prototype.flatMap over a sequence of sequences
RECURSIVE Flatten(_)
Flatten(ss) == IF ss = <<>> THEN <<>> ELSE Head(ss) \o Flatten(Tail(ss))

Digits == "0123456789"

\* the value of a decimal digit character, -1 for any other character
DigitVal(c) ==
    IF \E d \in 1..10 : SubSeq(Digits, d, d) = c
    THEN (CHOOSE d \in 1..10 : SubSeq(Digits, d, d) = c) - 1
    ELSE -1

\* s.replaceAll(c, '')
RECURSIVE RemoveChar(_, _)
RemoveChar(s, c) ==
    IF Len(s) = 0 THEN ""
    ELSE (IF SubSeq(s, 1, 1) = c THEN "" ELSE SubSeq(s, 1, 1))
         \o RemoveChar(SubSeq(s, 2, Len(s)), c)

RECURSIVE AllDigits(_)
AllDigits(s) ==
    Len(s) = 0 \/ (DigitVal(SubSeq(s, 1, 1)) >= 0 /\ AllDigits(SubSeq(s, 2, Len(s))))

RECURSIVE DigitsValue(_, _)
DigitsValue(s, acc) ==
    IF Len(s) = 0 THEN acc
    ELSE DigitsValue(SubSeq(s, 2, Len(s)), 10 * acc + DigitVal(SubSeq(s, 1, 1)))

\* Number(s) for a string: '' is 0, an optionally signed run of digits is
\* its value, anything else is NaN
ParseNumber(s) ==
    IF Len(s) = 0 THEN Num(0)
    ELSE IF AllDigits(s) THEN Num(DigitsValue(s, 0))
    ELSE IF Len(s) > 1 /\ SubSeq(s, 1, 1) = "-" /\ AllDigits(SubSeq(s, 2, Len(s)))
         THEN Num(0 - DigitsValue(SubSeq(s, 2, Len(s)), 0))
    ELSE IF Len(s) > 1 /\ SubSeq(s, 1, 1) = "+" /\ AllDigits(SubSeq(s, 2, Len(s)))
         THEN Num(DigitsValue(SubSeq(s, 2, Len(s)), 0))
    ELSE NaN

\* Number(v) / the ToNumber coercion of the arithmetic and relational operators
ToNumber(v) ==
    IF IsNum(v) THEN v
    ELSE IF IsStr(v) THEN ParseNumber(v.str)
    ELSE IF "date" \in DOMAIN v THEN Num(v.date)
    ELSE NaN

\* String(v). A Date prints as a long text that no number or tick label
\* prints as; the model renders it injectively from its time.
JSString(v) ==
    IF IsNum(v) THEN ToString(v.num)
    ELSE IF IsStr(v) THEN v.str
    ELSE IF "date" \in DOMAIN v THEN "Date " \o ToString(v.date) \o " 00:00:00 GMT"
    ELSE IF v = InvalidDate THEN "Invalid Date"
    ELSE IF v = NaN THEN "NaN"
    ELSE "undefined"

\* a - b
Minus(a, b) ==
    LET x == ToNumber(a)
        y == ToNumber(b)
    IN IF IsNum(x) /\ IsNum(y) THEN Num(x.num - y.num) ELSE NaN

\* a + b: string concatenation as soon as one operand is a string or a Date
Plus(a, b) ==
    IF IsStr(a) \/ IsStr(b) \/ IsDate(a) \/ IsDate(b)
    THEN Str(JSString(a) \o JSString(b))
    ELSE LET x == ToNumber(a)
             y == ToNumber(b)
         IN IF IsNum(x) /\ IsNum(y) THEN Num(x.num + y.num) ELSE NaN

\* a === b
StrictEq(a, b) == a # NaN /\ a # Undefined /\ a = b

\* code-unit order of the characters the model's strings are made of
Alphabet == " +,-0123456789:ABCDEFGHIJKLMNOPQRSTUVWXYZabcdefghijklmnopqrstuvwxyz"

CharOrd(c) ==
    IF \E k \in 1..Len(Alphabet) : SubSeq(Alphabet, k, k) = c
    THEN CHOOSE k \in 1..Len(Alphabet) : SubSeq(Alphabet, k, k) = c
    ELSE 0

RECURSIVE StrLess(_, _)
StrLess(s, t) ==
    IF Len(t) = 0 THEN FALSE
    ELSE IF Len(s) = 0 THEN TRUE
    ELSE IF SubSeq(s, 1, 1) = SubSeq(t, 1, 1)
         THEN StrLess(SubSeq(s, 2, Len(s)), SubSeq(t, 2, Len(t)))
    ELSE CharOrd(SubSeq(s, 1, 1)) < CharOrd(SubSeq(t, 1, 1))

\* a < b: two strings compare by code units, anything else as numbers, and
\* a comparison with NaN is false
Less(a, b) ==
    IF IsStr(a) /\ IsStr(b) THEN StrLess(a.str, b.str)
    ELSE LET x == ToNumber(a)
             y == ToNumber(b)
         IN IsNum(x) /\ IsNum(y) /\ x.num < y.num

\* a >= b
GreaterEq(a, b) ==
    IF IsStr(a) /\ IsStr(b) THEN ~StrLess(a.str, b.str)
    ELSE LET x == ToNumber(a)
             y == ToNumber(b)
         IN IsNum(x) /\ IsNum(y) /\ x.num >= y.num

\* new Date(v) for the numeric v the binner computed
NewDate(v) == IF IsNum(v) THEN DateOf(v.num) ELSE InvalidDate

\* Date.prototype.getFullYear for a time in days, exact for the dates of 1970
\* and 1971 (years of 365 days)
getFullYear(d) == Num(1970 + (d.date \div 365))

-----------------------------------------------------------------------------
(* Interval Binner *)

ensureAxisValuesNumeric(vals) ==
    IF \A i \in 1..Len(vals) : IsStr(vals[i])
    THEN [values |-> [i \in 1..Len(vals) |-> ParseNumber(RemoveChar(vals[i].str, ","))],
          isDate |-> FALSE]
    ELSE IF \A i \in 1..Len(vals) : IsDate(vals[i])
    THEN [values |-> [i \in 1..Len(vals) |-> ToNumber(vals[i])], isDate |-> TRUE]
    ELSE [values |-> vals, isDate |-> FALSE]

\* the reducer without the interior bucket that ends at the last tick
getEncodingValueIncrementsNoInterior(incrementArray, currentValue, index, array) ==
    LET reducedIndex == index - 1
    IN IF index = 0 /\ StrictEq(currentValue, Num(0))
       THEN incrementArray
       ELSE IF reducedIndex = -1 /\ ~StrictEq(currentValue, Num(0))
       THEN LET incrementDifference == Minus(At(array, index + 1), currentValue)
            IN Append(incrementArray,
                      <<Minus(currentValue, incrementDifference), currentValue>>)
       ELSE IF index = Len(array) - 1
       THEN LET incrementDifference == Minus(currentValue, At(array, index - 1))
                finalIncrement == Plus(currentValue, incrementDifference)
            IN Append(incrementArray, <<currentValue, finalIncrement>>)
       ELSE Append(incrementArray, <<At(array, reducedIndex), At(array, reducedIndex + 1)>>)

\* the reducer with the bucket below the first tick starting at the gap
\* instead of one gap below the tick
getEncodingValueIncrementsWrongBelow(incrementArray, currentValue, index, array) ==
    LET reducedIndex == index - 1
    IN IF index = 0 /\ StrictEq(currentValue, Num(0))
       THEN incrementArray
       ELSE IF reducedIndex = -1 /\ ~StrictEq(currentValue, Num(0))
       THEN LET incrementDifference == Minus(At(array, index + 1), currentValue)
            IN Append(incrementArray, <<incrementDifference, currentValue>>)
       ELSE IF index = Len(array) - 1
       THEN LET incrementDifference == Minus(currentValue, At(array, index - 1))
                finalIncrement == Plus(currentValue, incrementDifference)
            IN Append(Append(incrementArray, <<At(array, reducedIndex), currentValue>>),
                      <<currentValue, finalIncrement>>)
       ELSE Append(incrementArray, <<At(array, reducedIndex), At(array, reducedIndex + 1)>>)

\* the reducer without the early return for a first tick of 0
getEncodingValueIncrementsAlwaysBelow(incrementArray, currentValue, index, array) ==
    LET reducedIndex == index - 1
    IN IF reducedIndex = -1
       THEN LET incrementDifference == Minus(At(array, index + 1), currentValue)
            IN Append(incrementArray,
                      <<Minus(currentValue, incrementDifference), currentValue>>)
       ELSE IF index = Len(array) - 1
       THEN LET incrementDifference == Minus(currentValue, At(array, index - 1))
                finalIncrement == Plus(currentValue, incrementDifference)
            IN Append(Append(incrementArray, <<At(array, reducedIndex), currentValue>>),
                      <<currentValue, finalIncrement>>)
       ELSE Append(incrementArray, <<At(array, reducedIndex), At(array, reducedIndex + 1)>>)

\* the reducer: index is 0-based as in the source
getEncodingValueIncrements(incrementArray, currentValue, index, array) ==
    LET reducedIndex == index - 1
    IN IF index = 0 /\ StrictEq(currentValue, Num(0))
       THEN incrementArray
       ELSE IF reducedIndex = -1 /\ ~StrictEq(currentValue, Num(0))
       THEN LET incrementDifference == Minus(At(array, index + 1), currentValue)
            IN Append(incrementArray,
                      <<Minus(currentValue, incrementDifference), currentValue>>)
       ELSE IF index = Len(array) - 1
       THEN LET incrementDifference == Minus(currentValue, At(array, index - 1))
                finalIncrement == Plus(currentValue, incrementDifference)
            IN Append(Append(incrementArray, <<At(array, reducedIndex), currentValue>>),
                      <<currentValue, finalIncrement>>)
       ELSE Append(incrementArray, <<At(array, reducedIndex), At(array, reducedIndex + 1)>>)

\* array.reduce(getEncodingValueIncrements, []) up to and including index k - 1
RECURSIVE ReduceIncrements(_, _)
ReduceIncrements(array, k) ==
    IF k = 0 THEN <<>>
    ELSE getEncodingValueIncrements(ReduceIncrements(array, k - 1), array[k], k - 1, array)

\* increments.map(value => [new Date(value[0]), new Date(value[1])]) for a
\* date array, the increments themselves otherwise
incrementsToIntervals(increments, isDate) ==
    IF isDate
    THEN [i \in 1..Len(increments) |->
             <<NewDate(increments[i][1]), NewDate(increments[i][2])>>]
    ELSE increments

\* the body of axisValuesToIntervals once the values are numeric
intervalsOfNumeric(res) ==
    incrementsToIntervals(ReduceIncrements(res.values, Len(res.values)), res.isDate)

axisValuesToIntervals(vals) == intervalsOfNumeric(ensureAxisValuesNumeric(vals))

-----------------------------------------------------------------------------
(* Data Filter *)

filterIntervalTest(datum, field, lowerBound, upperBound) ==
    LET raw == datum[field]
        value == IF "date" \in DOMAIN raw
                    /\ Len(JSString(lowerBound)) = 4
                    /\ Len(JSString(upperBound)) = 4
                 THEN getFullYear(raw)
                 ELSE raw
    IN GreaterEq(value, lowerBound) /\ Less(value, upperBound)

filterInterval(selection, field, lowerBound, upperBound) ==
    SelectSeq(selection, LAMBDA datum : filterIntervalTest(datum, field, lowerBound, upperBound))

-----------------------------------------------------------------------------
(* Structure/Types: the token tables *)

tokenType == <<"name", "index", "type", "children", "data", "size", "parent", "aggregate">>

nodeTypeToHierarchyLevel ==
    [multiView |-> "root", chart |-> "facet", xAxis |-> "axis", yAxis |-> "axis",
     legend |-> "axis", grid |-> "axis", filteredData |-> "section", data |-> "datapoint"]

hierarchyLevelToTokens ==
    [root |-> <<"name">>,
     facet |-> <<"index", "type", "name", "children">>,
     axis |-> <<"name", "type", "data", "size", "parent", "aggregate">>,
     section |-> <<"data", "index", "size", "parent">>,
     datapoint |-> <<"data", "parent">>]

NodeTypes == {"multiView", "chart", "xAxis", "yAxis", "legend", "grid", "filteredData", "data"}

-----------------------------------------------------------------------------
(* Node references *)

Null == [null |-> TRUE]

\* a reference to a node: the child positions leading to it from the root,
\* and the type read through the reference
Ref(path, type) == [ref |-> path, type |-> type]

-----------------------------------------------------------------------------
(* Description Token Generator: which token functions raise *)

\* maximumValue / minimumValue read node.selected[0][axis.field]
maximumValueThrows(node, axis) ==
    axis.scaleType = "quantitative" /\ Len(node.selected) = 0

\* the node types each token function has a case for
tokenNodeTypes ==
    [name |-> {"multiView", "chart", "xAxis", "yAxis", "legend", "grid"},
     index |-> {"chart", "filteredData"},
     type |-> {"chart", "xAxis", "yAxis", "legend", "grid"},
     children |-> {"chart"},
     data |-> {"xAxis", "yAxis", "legend", "grid", "filteredData", "data"},
     size |-> {"xAxis", "yAxis", "legend", "grid", "filteredData"},
     parent |-> {"xAxis", "yAxis", "legend", "grid", "filteredData", "data"},
     aggregate |-> {"xAxis", "yAxis", "legend", "grid"}]

\* tokenFunctions[token](node) raises
tokenFunctionThrows(token, node, spec, guide) ==
    \/ node.type \notin tokenNodeTypes[token]
    \/ token = "children" /\ Len(spec.axes) = 0          \* chart.axes[0].title
    \/ /\ token = "aggregate"
       /\ node.type \in {"xAxis", "yAxis"}
       /\ maximumValueThrows(node, guide)

nodeToDescThrows(node, spec, guide) ==
    LET tokens == hierarchyLevelToTokens[nodeTypeToHierarchyLevel[node.type]]
    IN \E k \in 1..Len(tokens) : tokenFunctionThrows(tokens[k], node, spec, guide)

-----------------------------------------------------------------------------
(* Description Token Generator: the fragments *)

\* the truthiness of a value in a condition, || or ?:
Truthy(v) ==
    IF IsStr(v) THEN v.str # ""
    ELSE IF IsNum(v) THEN v.num # 0
    ELSE IsDate(v)

\* a || b
Or(a, b) == IF Truthy(a) THEN a ELSE b

\* Array.isArray(v): the arrays of the model are tuples, everything else is
\* a record
IsArray(v) == SubSeq(ToString(v), 1, 1) = "<"

\* Array.prototype.join over a sequence of strings
RECURSIVE Join(_, _)
Join(strs, sep) ==
    IF Len(strs) = 0 THEN ""
    ELSE IF Len(strs) = 1 THEN strs[1]
    ELSE strs[1] \o sep \o Join(Tail(strs), sep)

MonthNames == <<"Jan", "Feb", "Mar", "Apr", "May", "Jun", "Jul", "Aug", "Sep", "Oct", "Nov", "Dec">>

\* the days of a 365-day year that precede each month
MonthStarts == <<0, 31, 59, 90, 120, 151, 181, 212, 243, 273, 304, 334>>

\* the month (1..12) of a 0-based day of the year
MonthOfDay(day) == CHOOSE m \in 1..12 : MonthStarts[m] <= day /\ (m = 12 \/ day < MonthStarts[m + 1])

\* value.toLocaleString("en-US", {year: 'numeric', month: 'short', day: 'numeric'})
\* for a time in days, in years of 365 days as getFullYear
toLocaleString(d) ==
    IF d = InvalidDate THEN "Invalid Date"
    ELSE MonthNames[MonthOfDay(d.date % 365)] \o " "
         \o ToString((d.date % 365) - MonthStarts[MonthOfDay(d.date % 365)] + 1) \o ", "
         \o ToString(1970 + (d.date \div 365))

\* fmtValue: a Date is rendered as month, day and year; any other value is
\* returned as it is (the model has no non-integer numbers to round)
fmtValue(v) == IF IsDate(v) THEN Str(toLocaleString(v)) ELSE v

chartType(chart) ==
    IF chart.mark = "point"
    THEN IF \A i \in 1..Len(chart.axes) : chart.axes[i].type = "continuous"
         THEN "scatterplot"
         ELSE "dot plot"
    ELSE IF chart.mark # "" THEN chart.mark \o " chart" ELSE ""

chartTitle(chart, facetValue) ==
    IF Truthy(Or(chart.title, facetValue))
    THEN "\"" \o JSString(Or(chart.title, facetValue)) \o "\""
    ELSE ""

guideTitle(guide) == "titled \"" \o JSString(Or(guide.title, Str(guide.field))) \o "\""

axisScaleType(axis) ==
    (IF axis.scaleType # "" THEN axis.scaleType ELSE axis.type) \o " scale"

legendChannel(legend) ==
    IF Truthy(legend.channel) THEN "for " \o JSString(legend.channel) ELSE ""

pluralize(count, noun) ==
    ToString(count) \o " " \o noun \o (IF count # 1 THEN "s" ELSE "")

facetValueStr(facetValue) == IF Truthy(facetValue) THEN JSString(facetValue) ELSE ""

\* a string guide value, or the two bounds of an interval
filteredValues(guideFilterValues) ==
    IF IsArray(guideFilterValues)
    THEN Join([i \in 1..Len(guideFilterValues) |-> JSString(fmtValue(guideFilterValues[i]))],
              " to ")
    ELSE IF ~Truthy(guideFilterValues) THEN ""
    ELSE "\"" \o JSString(fmtValue(guideFilterValues)) \o "\""

filteredValuesGrid(gridFilterValues) ==
    IF ~IsArray(gridFilterValues) THEN ""
    ELSE "in " \o filteredValues(gridFilterValues[1])
         \o " and " \o filteredValues(gridFilterValues[2])

indexStr(index, length) ==
    IF index # Undefined /\ length # Undefined
    THEN ToString(index.num + 1) \o " of " \o ToString(length.num)
    ELSE ""

\* the fields of a row in the order of node.tableKeys
datumFields(row, node) ==
    Join([i \in 1..Len(node.tableKeys) |->
             "\"" \o node.tableKeys[i] \o "\": \""
             \o JSString(fmtValue(row[node.tableKeys[i]])) \o "\""],
         ", ")

\* a + b and Math.max / Math.min of two numbers, NaN as soon as one is NaN
AddNumbers(a, b) == IF IsNum(a) /\ IsNum(b) THEN Num(a.num + b.num) ELSE NaN
MathMax(a, b) == IF IsNum(a) /\ IsNum(b) THEN (IF a.num >= b.num THEN a ELSE b) ELSE NaN
MathMin(a, b) == IF IsNum(a) /\ IsNum(b) THEN (IF a.num <= b.num THEN a ELSE b) ELSE NaN

\* Math.round(sum / count): the nearest integer, a half rounding up
RoundedQuotient(sum, count) ==
    IF IsNum(sum) /\ count > 0 THEN Num((2 * sum.num + count) \div (2 * count)) ELSE NaN

\* selected.reduce((a, b) => a + Number(b[field]), 0) over the first k rows
RECURSIVE SumOfField(_, _, _)
SumOfField(selected, field, k) ==
    IF k = 0 THEN Num(0)
    ELSE AddNumbers(SumOfField(selected, field, k - 1), ToNumber(selected[k][field]))

\* selected.reduce((a, b) => Math.max(a, Number(b[field])), Number(selected[0][field]))
RECURSIVE MaxOfField(_, _, _)
MaxOfField(selected, field, k) ==
    IF k = 0 THEN ToNumber(selected[1][field])
    ELSE MathMax(MaxOfField(selected, field, k - 1), ToNumber(selected[k][field]))

RECURSIVE MinOfField(_, _, _)
MinOfField(selected, field, k) ==
    IF k = 0 THEN ToNumber(selected[1][field])
    ELSE MathMin(MinOfField(selected, field, k - 1), ToNumber(selected[k][field]))

\* Number(date) is the time of the date, which the model counts in days
averageValue(node, axis) ==
    IF axis.scaleType # "quantitative" THEN ""
    ELSE JSString(RoundedQuotient(SumOfField(node.selected, axis.field, Len(node.selected)),
                                  Len(node.selected)))

maximumValue(node, axis) ==
    IF axis.scaleType # "quantitative" THEN ""
    ELSE JSString(MaxOfField(node.selected, axis.field, Len(node.selected)))

minimumValue(node, axis) ==
    IF axis.scaleType # "quantitative" THEN ""
    ELSE JSString(MinOfField(node.selected, axis.field, Len(node.selected)))

-----------------------------------------------------------------------------
(* Description Token Generator: the token functions, each returning the *)
(* pair <<short, long>>, or Thrown for a node type it has no case for   *)

\* Array(2).fill(text)
Fill(text) == <<text, text>>

multiViewName(title, views) ==
    <<"faceted chart " \o title \o ", " \o ToString(views) \o " views",
      "a faceted chart " \o (IF Len(title) > 0 THEN "titled " \o title ELSE title)
          \o " with " \o ToString(views) \o " views">>

chartName(title) == <<title, IF Len(title) > 0 THEN "titled " \o title ELSE title>>

nameToken(node, spec, facetValue, guide) ==
    IF node.type = "multiView" THEN multiViewName(chartTitle(spec, facetValue), Len(node.children))
    ELSE IF node.type = "chart" THEN chartName(chartTitle(spec, facetValue))
    ELSE IF node.type \in {"xAxis", "yAxis"}
    THEN Fill(guide.axisType \o "-axis " \o guideTitle(guide))
    ELSE IF node.type = "legend" THEN Fill("legend " \o guideTitle(guide))
    ELSE IF node.type = "grid" THEN <<"grid", "grid view of " \o chartType(spec)>>
    ELSE Thrown

indexToken(node, idx, length) ==
    IF node.type \in {"chart", "filteredData"} THEN Fill(indexStr(idx, length))
    ELSE Thrown

typeToken(node, spec, guide) ==
    IF node.type = "chart" THEN Fill(chartType(spec))
    ELSE IF node.type \in {"xAxis", "yAxis"}
    THEN <<axisScaleType(guide), "for a " \o axisScaleType(guide)>>
    ELSE IF node.type = "legend" THEN Fill(legendChannel(guide))
    ELSE IF node.type = "grid" THEN <<"", "">>
    ELSE Thrown

\* the title or else the field of each axis of the chart
axisTitles(chart) ==
    [i \in 1..Len(chart.axes) |-> JSString(Or(chart.axes[i].title, Str(chart.axes[i].field)))]

quoted(strs) == [i \in 1..Len(strs) |-> "\"" \o strs[i] \o "\""]

\* reading chart.axes[0].title raises when the chart has no axis
childrenToken(node, chart) ==
    IF node.type # "chart" \/ Len(chart.axes) = 0 THEN Thrown
    ELSE IF Len(chart.axes) = 1
    THEN <<"axis " \o axisTitles(chart)[1], "with axis " \o axisTitles(chart)[1]>>
    ELSE <<"axes " \o Join(quoted(axisTitles(chart)), ", "),
           "with axes " \o Join(quoted(axisTitles(chart)), " and ")>>

\* the data token of an axis or a legend, start, next and end being the
\* formatted first, second and last value of the guide
guideData(axis, start, next, end) ==
    IF axis.type = "discrete"
    THEN IF Len(axis.values) = 2
         THEN <<"2 values: " \o start \o ", " \o next,
                "with 2 values: \"" \o start \o "\" and \"" \o next \o "\"">>
         ELSE <<pluralize(Len(axis.values), "value") \o " from " \o start \o " to " \o end,
                "with " \o pluralize(Len(axis.values), "value") \o " starting with \""
                    \o start \o "\" and ending with \"" \o end \o "\"">>
    ELSE <<"from " \o start \o " to " \o end,
           "with values from \"" \o start \o "\" to \"" \o end \o "\"">>

\* node.parent?.type
parentType(node) == IF node.parent = Null THEN "" ELSE node.parent.type

dataToken(node, guide) ==
    IF node.type \in {"xAxis", "yAxis", "legend"}
    THEN guideData(guide, JSString(fmtValue(At(guide.values, 0))),
                   JSString(fmtValue(At(guide.values, 1))),
                   JSString(fmtValue(At(guide.values, Len(guide.values) - 1))))
    ELSE IF node.type = "grid" THEN <<"", "">>
    ELSE IF node.type = "filteredData"
    THEN IF parentType(node) = "grid"
         THEN Fill(filteredValuesGrid(node.filterValue))
         ELSE Fill(filteredValues(node.filterValue))
    ELSE IF node.type = "data" THEN Fill(datumFields(node.selected[1], node))
    ELSE Thrown

sizeToken(node) ==
    IF node.type \in {"xAxis", "yAxis", "legend", "grid", "filteredData"}
    THEN Fill(pluralize(Len(node.children), "value"))
    ELSE Thrown

parentName(fvs) == <<fvs, IF Len(fvs) > 0 THEN "\"" \o fvs \o "\"" ELSE fvs>>

parentToken(node, facetValue) ==
    IF node.type \in {"xAxis", "yAxis", "legend", "grid", "filteredData", "data"}
    THEN parentName(facetValueStr(facetValue))
    ELSE Thrown

aggregateText(avg, max, min) ==
    <<"average " \o avg \o ", maximum " \o max \o ", minimum " \o min,
      "the average is " \o avg \o ", the maximum is " \o max
          \o ", and the minimum is " \o min>>

aggregateToken(node, guide) ==
    IF node.type \in {"xAxis", "yAxis"}
    THEN IF guide.scaleType # "quantitative" THEN <<"", "">>
         ELSE IF maximumValueThrows(node, guide) THEN Thrown
         ELSE aggregateText(averageValue(node, guide), maximumValue(node, guide),
                            minimumValue(node, guide))
    ELSE IF node.type \in {"legend", "grid"} THEN <<"", "">>
    ELSE Thrown

\* tokenFunctions[token](node)
tokenFunctions(token, node, spec, facetValue, guide, idx, length) ==
    IF token = "name" THEN nameToken(node, spec, facetValue, guide)
    ELSE IF token = "index" THEN indexToken(node, idx, length)
    ELSE IF token = "type" THEN typeToken(node, spec, guide)
    ELSE IF token = "children" THEN childrenToken(node, spec)
    ELSE IF token = "data" THEN dataToken(node, guide)
    ELSE IF token = "size" THEN sizeToken(node)
    ELSE IF token = "parent" THEN parentToken(node, facetValue)
    ELSE aggregateToken(node, guide)

\* the description map of a node whose token functions do not raise: its
\* entries in insertion order, one per token of the node's hierarchy level
descriptionOfTokens(tokens, node, spec, facetValue, guide, idx, length) ==
    [k \in 1..Len(tokens) |->
        [token |-> tokens[k],
         desc |-> tokenFunctions(tokens[k], node, spec, facetValue, guide, idx, length)]]

nodeToDesc(node, spec, facetValue, guide, idx, length) ==
    IF nodeToDescThrows(node, spec, guide) THEN Thrown
    ELSE descriptionOfTokens(hierarchyLevelToTokens[nodeTypeToHierarchyLevel[node.type]],
                             node, spec, facetValue, guide, idx, length)

-----------------------------------------------------------------------------
(* Tree Builder *)

\* the fields when they are not passed through a Set
DedupeNone(fields) == fields

\* [...new Set(fields)]: the first occurrence of each element, in order
RECURSIVE Dedupe(_)
Dedupe(fields) ==
    IF fields = <<>> THEN <<>>
    ELSE LET front == Dedupe(SubSeq(fields, 1, Len(fields) - 1))
             last == fields[Len(fields)]
         IN IF \E i \in 1..Len(front) : front[i] = last THEN front ELSE Append(front, last)

guideFields(guides) == [i \in 1..Len(guides) |-> guides[i].field]

\* Thrown for a spec type the switch has no case for
getFieldsUsedForChart(spec) ==
    IF spec.type = "facetedChart"
    THEN Dedupe(<<spec.facetedField>>
                \o Flatten([k \in 1..Len(spec.charts) |->
                              Dedupe(guideFields(spec.charts[k][2].axes
                                                 \o spec.charts[k][2].legends))]))
    ELSE IF spec.type = "chart"
    THEN Dedupe(guideFields(spec.axes \o spec.legends))
    ELSE Thrown

\* the axes kept when a bar chart's continuous axes are not dropped
filteredAxesKeepAll(chart) == chart.axes

\* chart.axes.filter(...) of the chart case
filteredAxes(chart) ==
    SelectSeq(chart.axes, LAMBDA axis : ~(chart.mark = "bar" /\ axis.type = "continuous"))

\* chart.axes.find(axis => axis.axisType === orient)
findAxis(chart, orient) ==
    IF \E i \in 1..Len(chart.axes) : chart.axes[i].axisType = orient
    THEN chart.axes[CHOOSE i \in 1..Len(chart.axes) :
                        /\ chart.axes[i].axisType = orient
                        /\ \A j \in 1..(i - 1) : chart.axes[j].axisType # orient]
    ELSE Undefined

\* the cross product with the second list as the outer loop
cartesianSecondOuter(a, b) ==
    Flatten([j \in 1..Len(b) |-> [i \in 1..Len(a) |-> a[i] \o b[j]]])

cartesian(a, b) ==
    Flatten([i \in 1..Len(a) |-> [j \in 1..Len(b) |-> a[i] \o b[j]]])

\* the grid condition without the test that both axes are continuous
hasGridAnyTwoAxes(chart) == chart.mark = "point" /\ Len(filteredAxes(chart)) = 2

\* the grid condition of the chart case
hasGrid(chart) ==
    /\ chart.mark = "point"
    /\ Len(filteredAxes(chart)) = 2
    /\ \A i \in 1..Len(filteredAxes(chart)) : filteredAxes(chart)[i].type = "continuous"

\* the rows a discrete guide value keeps when the two sides are compared
\* with === and without String()
filterDiscreteNoString(selected, field, value) ==
    SelectSeq(selected, LAMBDA d : d[field] = value)

\* the rows a discrete guide value keeps
filterDiscrete(selected, field, value) ==
    SelectSeq(selected, LAMBDA d : JSString(d[field]) = JSString(value))

\* the rows of a facet when the facet field is compared without String()
filterFacetNoString(selected, facetedField, facetValue) ==
    SelectSeq(selected, LAMBDA datum : datum[facetedField] = Str(facetValue))

\* the rows of a facet
filterFacet(selected, facetedField, facetValue) ==
    SelectSeq(selected, LAMBDA datum : JSString(datum[facetedField]) = facetValue)

\* the data case: the order of the fields of a table row
dataTableKeys(fieldsUsed, facetValue, guide) ==
    LET keys1 == IF guide # Undefined
                 THEN Append(SelectSeq(fieldsUsed, LAMBDA f : f # guide.field), guide.field)
                 ELSE fieldsUsed
        facetedField == fieldsUsed[1]
    IN IF facetValue # Undefined /\ facetValue.str # ""
       THEN Append(SelectSeq(keys1, LAMBDA f : f # facetedField), facetedField)
       ELSE keys1

\* the rows of a grid cell when the y bound is tested on the x field
gridCellSelectedXFieldTwice(selected, xAxis, yAxis, cell) ==
    filterInterval(filterInterval(selected, xAxis.field, cell[1], cell[2]),
                   xAxis.field, cell[3], cell[4])

\* the rows of a grid cell: the x bound, then the y bound
gridCellSelected(selected, xAxis, yAxis, cell) ==
    filterInterval(filterInterval(selected, xAxis.field, cell[1], cell[2]),
                   yAxis.field, cell[3], cell[4])

\* the coordinates of the grid cell at a 0-based position of the cross product
gridIndexOf(index, yIntervals) ==
    [i |-> index \div Len(yIntervals), j |-> index % Len(yIntervals)]

\* a data child that is handed the whole selection instead of its row
dataChildSelectedWhole(selected, k) == selected

\* the selected of the data child of a filteredData node for its k-th row
dataChildSelected(selected, k) == <<selected[k]>>

\* the node a call returns once its children are built, or Thrown when a
\* child's construction or the node's description raised
finishNode(node, spec, facetValue, guide, index, length) ==
    IF \E i \in 1..Len(node.children) : node.children[i] = Thrown THEN Thrown
    ELSE IF nodeToDescThrows(node, spec, guide) THEN Thrown
    ELSE [node EXCEPT !.description = nodeToDesc(node, spec, facetValue, guide, index, length)]

\* one recursive call of olliVisSpecToNode for a child
Call(type, selected, spec, facetValue, filterValue, guide, index, length, gridIndex) ==
    [type |-> type, selected |-> selected, spec |-> spec, facetValue |-> facetValue,
     filterValue |-> filterValue, guide |-> guide, index |-> index, length |-> length,
     gridIndex |-> gridIndex]

Calls(calls) == [throws |-> FALSE, calls |-> calls]

\* case "multiView"
multiViewCalls(selected, spec) ==
    Calls([k \in 1..Len(spec.charts) |->
        Call("chart", filterFacet(selected, spec.facetedField, spec.charts[k][1]),
             spec.charts[k][2], Str(spec.charts[k][1]), Undefined, Undefined,
             Num(k - 1), Num(Len(spec.charts)), Undefined)])

\* the chart case with the legends spread before the axes
chartCallsLegendsFirst(axes, selected, spec, facetValue) ==
    Calls(
        [k \in 1..Len(spec.legends) |->
            Call("legend", selected, spec, facetValue, Undefined, spec.legends[k],
                 Undefined, Undefined, Undefined)]
        \o [k \in 1..Len(axes) |->
            Call(IF axes[k].axisType = "x" THEN "xAxis" ELSE "yAxis", selected, spec,
                 facetValue, Undefined, axes[k], Undefined, Undefined, Undefined)]
        \o (IF hasGrid(spec)
            THEN <<Call("grid", selected, spec, facetValue, Undefined, Undefined,
                        Undefined, Undefined, Undefined)>>
            ELSE <<>>))

\* case "chart": the axes kept, then the legends, then the grid if any
chartCalls(axes, selected, spec, facetValue) ==
    Calls(
        [k \in 1..Len(axes) |->
            Call(IF axes[k].axisType = "x" THEN "xAxis" ELSE "yAxis", selected, spec,
                 facetValue, Undefined, axes[k], Undefined, Undefined, Undefined)]
        \o [k \in 1..Len(spec.legends) |->
            Call("legend", selected, spec, facetValue, Undefined, spec.legends[k],
                 Undefined, Undefined, Undefined)]
        \o (IF hasGrid(spec)
            THEN <<Call("grid", selected, spec, facetValue, Undefined, Undefined,
                        Undefined, Undefined, Undefined)>>
            ELSE <<>>))

\* case "discrete" of an axis or a legend
discreteCalls(selected, spec, facetValue, guide) ==
    Calls([k \in 1..Len(guide.values) |->
        Call("filteredData", filterDiscrete(selected, guide.field, guide.values[k]),
             spec, facetValue, Str(JSString(guide.values[k])), guide,
             Num(k - 1), Num(Len(guide.values)), Undefined)])

\* case "continuous" of an axis, ivs being its intervals
continuousCalls(ivs, selected, spec, facetValue, guide) ==
    Calls([k \in 1..Len(ivs) |->
        Call("filteredData", filterInterval(selected, guide.field, ivs[k][1], ivs[k][2]),
             spec, facetValue, ivs[k], guide, Num(k - 1), Num(Len(ivs)), Undefined)])

\* the children of a grid, cells being the cross product of its intervals
gridCellCalls(cells, yIntervals, xAxis, yAxis, selected, spec, facetValue) ==
    Calls([k \in 1..Len(cells) |->
        Call("filteredData", gridCellSelected(selected, xAxis, yAxis, cells[k]),
             spec, facetValue,
             <<<<cells[k][1], cells[k][2]>>, <<cells[k][3], cells[k][4]>>>>,
             Undefined, Undefined, Undefined, gridIndexOf(k - 1, yIntervals))])

\* case "grid": reading xAxis.values raises when an orientation has no axis
gridCalls(xAxis, yAxis, selected, spec, facetValue) ==
    IF xAxis = Undefined \/ yAxis = Undefined
    THEN [throws |-> TRUE, calls |-> <<>>]
    ELSE gridCellCalls(cartesian(axisValuesToIntervals(xAxis.values),
                                 axisValuesToIntervals(yAxis.values)),
                       axisValuesToIntervals(yAxis.values),
                       xAxis, yAxis, selected, spec, facetValue)

\* a filteredData case that makes no data child for the first row
filteredDataCallsAfterFirst(selected, spec, facetValue, guide) ==
    Calls([k \in 1..(Len(selected) - 1) |->
        Call("data", dataChildSelected(selected, k + 1), spec, facetValue, Undefined, guide,
             Num(k), Num(Len(selected)), Undefined)])

\* case "filteredData"
filteredDataCalls(selected, spec, facetValue, guide) ==
    Calls([k \in 1..Len(selected) |->
        Call("data", dataChildSelected(selected, k), spec, facetValue, Undefined, guide,
             Num(k - 1), Num(Len(selected)), Undefined)])

\* the switch of olliVisSpecToNode: the calls that build the children of a
\* node, in child order; throws when the case raises before any child is built
childCalls(type, selected, spec, facetValue, guide) ==
    IF type = "multiView" THEN multiViewCalls(selected, spec)
    ELSE IF type = "chart" THEN chartCalls(filteredAxes(spec), selected, spec, facetValue)
    ELSE IF type \in {"xAxis", "yAxis", "legend"} THEN
        IF guide.type = "discrete" THEN discreteCalls(selected, spec, facetValue, guide)
        ELSE IF guide.type = "continuous" /\ type # "legend"
        THEN continuousCalls(axisValuesToIntervals(guide.values), selected, spec,
                             facetValue, guide)
        ELSE Calls(<<>>)
    ELSE IF type = "grid"
    THEN gridCalls(findAxis(spec, "x"), findAxis(spec, "y"), selected, spec, facetValue)
    ELSE IF type = "filteredData" THEN filteredDataCalls(selected, spec, facetValue, guide)
    ELSE IF type = "data" THEN Calls(<<>>)
    ELSE [throws |-> TRUE, calls |-> <<>>]              \* default: throw

RECURSIVE olliVisSpecToNode(_, _, _, _, _, _, _, _, _, _, _, _)

\* the node of a call whose switch asked for the calls todo: self is the
\* position of the node under construction, and its children get Ref(self)
\* as their parent
nodeOfCalls(todo, type, selected, parent, spec, fieldsUsed, facetValue, filterValue, guide, index, length, gridIndex, self) ==
    IF todo.throws THEN Thrown
    ELSE finishNode(
            [type |-> type, parent |-> parent, selected |-> selected,
             filterValue |-> filterValue, gridIndex |-> gridIndex, description |-> <<>>,
             tableKeys |-> IF type = "data"
                           THEN dataTableKeys(fieldsUsed, facetValue, guide)
                           ELSE Undefined,
             children |-> [k \in 1..Len(todo.calls) |->
                 olliVisSpecToNode(todo.calls[k].type, todo.calls[k].selected,
                     Ref(self, type), todo.calls[k].spec, fieldsUsed, todo.calls[k].facetValue,
                     todo.calls[k].filterValue, todo.calls[k].guide, todo.calls[k].index,
                     todo.calls[k].length, todo.calls[k].gridIndex, Append(self, k))]],
            spec, facetValue, guide, index, length)

olliVisSpecToNode(type, selected, parent, spec, fieldsUsed, facetValue, filterValue, guide, index, length, gridIndex, self) ==
    nodeOfCalls(childCalls(type, selected, spec, facetValue, guide), type, selected, parent,
                spec, fieldsUsed, facetValue, filterValue, guide, index, length, gridIndex, self)

\* the root node of olliVisSpecToTree
rootNode(spec, fieldsUsed) ==
    olliVisSpecToNode(IF spec.type = "facetedChart" THEN "multiView" ELSE "chart",
                      spec.data, Null, spec, fieldsUsed, Undefined, Undefined,
                      Undefined, Undefined, Undefined, Undefined, <<>>)

\* the value olliVisSpecToTree returns for a root node
treeOf(root, fieldsUsed) ==
    IF root = Thrown THEN Thrown
    ELSE [status |-> "returned", root |-> root, fieldsUsed |-> fieldsUsed]

\* chart.axes after a chart case that assigns the filtered axes to it
axesAfterChartCaseAssigned(chart) == filteredAxes(chart)

\* chart.axes after the chart case: the filtered axes are held by the local
\* constant filteredAxes, and chart.axes is not assigned
axesAfterChartCase(chart) == chart.axes

\* the visualization spec after olliVisSpecToTree returned or raised: the
\* builder assigns to fields of the nodes it creates, pushes to the array its
\* reducer starts empty and sets entries of the description map it creates;
\* of the spec it only reads
specAfterBuild(spec) ==
    IF spec.type = "chart" THEN [spec EXCEPT !.axes = axesAfterChartCase(spec)]
    ELSE IF spec.type = "facetedChart"
    THEN [spec EXCEPT !.charts =
            [f \in 1..Len(spec.charts) |->
                <<spec.charts[f][1],
                  [spec.charts[f][2] EXCEPT !.axes = axesAfterChartCase(spec.charts[f][2])]>>]]
    ELSE spec

\* olliVisSpecToTree when both switches return an empty tree by default
olliVisSpecToTreeNoDefault(spec) ==
    IF spec.type \in {"facetedChart", "chart"}
    THEN treeOf(rootNode(spec, getFieldsUsedForChart(spec)), getFieldsUsedForChart(spec))
    ELSE [status |-> "returned", root |-> Null, fieldsUsed |-> <<>>]

olliVisSpecToTree(spec) ==
    IF spec.type \notin {"facetedChart", "chart"} THEN Thrown
    ELSE treeOf(rootNode(spec, getFieldsUsedForChart(spec)), getFieldsUsedForChart(spec))

-----------------------------------------------------------------------------
(* Settings: the verbosity presets and getDescriptionWithSettings *)

\* the ordinals of tokenLength, which index the pair [short, long]
tokenLength == [Short |-> 0, Long |-> 1]

\* the hierarchy levels that have a verbosity menu
SettingsLevels == {"facet", "axis", "section", "datapoint"}

\* settingsData[level] is the sequence, in key order, of the presets of the
\* level, each a name and its ordered [token, length] pairs
Preset(name, tokens) == [name |-> name, tokens |-> tokens]

\* settingsData[hierarchyLevel][value], undefined when no preset has the name
presetTokens(settings, level, value) ==
    IF \E i \in 1..Len(settings[level]) : settings[level][i].name = value
    THEN settings[level][CHOOSE i \in 1..Len(settings[level]) :
                            settings[level][i].name = value].tokens
    ELSE Undefined

\* document.getElementById(`${level}-verbosity`): null until the menu is in
\* the document
NoElement == [exists |-> FALSE]
Select(value) == [exists |-> TRUE, value |-> value]

\* dropdown ? dropdown.value : 'high'
verbosityValue(dropdown) == IF dropdown.exists THEN dropdown.value ELSE "high"

\* export const focusTokens: every token false
focusTokens == [t \in {tokenType[i] : i \in 1..Len(tokenType)} |-> FALSE]

\* includeOrder.indexOf(token), 0-based, -1 when absent
IndexOf(seq, x) ==
    IF \E i \in 1..Len(seq) : seq[i] = x
    THEN (CHOOSE i \in 1..Len(seq) : seq[i] = x /\ \A j \in 1..(i - 1) : seq[j] # x) - 1
    ELSE -1

\* the empty slot of a sparse array
Hole == [hole |-> TRUE]

\* array[i] = v for a 0-based i, the array growing with empty slots
SetAt(array, i, v) ==
    [k \in 1..(IF i + 1 > Len(array) THEN i + 1 ELSE Len(array)) |->
        IF k = i + 1 THEN v ELSE IF k <= Len(array) THEN array[k] ELSE Hole]

\* array.unshift(v)
Unshift(array, v) == <<v>> \o array

\* Object.fromEntries(preset)[token]: the length of the last pair of the
\* token, undefined when the preset does not list it
lengthOf(preset, token) ==
    IF \E i \in 1..Len(preset) : preset[i][1] = token
    THEN Num(preset[CHOOSE i \in 1..Len(preset) :
                       preset[i][1] = token /\ \A j \in (i + 1)..Len(preset) : preset[j][1] # token][2])
    ELSE Undefined

\* a fragment that is appended instead of stored at the position of its token
placeFragmentPush(description, preset, entry) ==
    Append(description, Str(entry.desc[lengthOf(preset, entry.token).num + 1]))

\* description[includeOrder.indexOf(token)] = desc[tokenLengths[token]]
placeFragment(description, preset, entry) ==
    SetAt(description, IndexOf([i \in 1..Len(preset) |-> preset[i][1]], entry.token),
          Str(entry.desc[lengthOf(preset, entry.token).num + 1]))

\* a focus token is put up front, at the length of the preset or else short
placeFocusToken(description, preset, entry) ==
    Unshift(description,
            Str(entry.desc[(IF Truthy(lengthOf(preset, entry.token))
                            THEN lengthOf(preset, entry.token).num ELSE 0) + 1]))

\* the body of the loop over node.description.entries()
placeEntry(description, preset, entry) ==
    IF IndexOf([i \in 1..Len(preset) |-> preset[i][1]], entry.token) >= 0
       \/ focusTokens[entry.token]
    THEN IF focusTokens[entry.token]
         THEN placeFocusToken(description, preset, entry)
         ELSE placeFragment(description, preset, entry)
    ELSE description

\* the array description after the first k entries of the map
RECURSIVE placeEntries(_, _, _)
placeEntries(entries, preset, k) ==
    IF k = 0 THEN <<>>
    ELSE placeEntry(placeEntries(entries, preset, k - 1), preset, entries[k])

LowerCase == "abcdefghijklmnopqrstuvwxyz"
UpperCase == "ABCDEFGHIJKLMNOPQRSTUVWXYZ"

\* c.toUpperCase() for one character
toUpperCase(c) ==
    IF \E i \in 1..26 : SubSeq(LowerCase, i, i) = c
    THEN LET i == CHOOSE i \in 1..26 : SubSeq(LowerCase, i, i) = c IN SubSeq(UpperCase, i, i)
    ELSE c

capitalizeFirst(s) ==
    IF Len(s) = 0 THEN "" ELSE toUpperCase(SubSeq(s, 1, 1)) \o SubSeq(s, 2, Len(s))

\* description.filter(x => x.length > 0): an empty slot is skipped
nonEmptyFragments(description) ==
    SelectSeq(description, LAMBDA x : x # Hole /\ Len(x.str) > 0)

formatDescTokens(description) ==
    Join([i \in 1..Len(nonEmptyFragments(description)) |->
             capitalizeFirst(nonEmptyFragments(description)[i].str)], ". ") \o "."

\* the root cannot be changed by the user: its tokens of the table, all long
rootPreset == [i \in 1..Len(hierarchyLevelToTokens["root"]) |->
                  <<hierarchyLevelToTokens["root"][i], tokenLength.Long>>]

\* the string of a node under a preset; reading .map of an undefined preset
\* raises
descriptionWithPreset(node, preset) ==
    IF ~IsArray(preset) THEN Thrown
    ELSE [status |-> "returned", node |-> node,
          text |-> formatDescTokens(placeEntries(node.description, preset,
                                                 Len(node.description)))]

\* a resolution that empties the description map of the root
treeDescriptionCleared(t, node) == [t EXCEPT !.root.description = <<>>]

\* the tree after getDescriptionWithSettings(node): node.description is
\* only iterated, the fragments go into an array of the call's own
treeAfterDescription(t, node) == t

getDescriptionWithSettings(node, settings, selects) ==
    IF nodeTypeToHierarchyLevel[node.type] = "root"
    THEN descriptionWithPreset(node, rootPreset)
    ELSE descriptionWithPreset(node,
            presetTokens(settings, nodeTypeToHierarchyLevel[node.type],
                         verbosityValue(selects[nodeTypeToHierarchyLevel[node.type]])))

\* the presets a page starts with when nothing is stored: every token of the
\* level at full length, and a short selection of them
defaultSettingsData ==
    [level \in SettingsLevels |->
        <<Preset("high", [i \in 1..Len(hierarchyLevelToTokens[level]) |->
                             <<hierarchyLevelToTokens[level][i], tokenLength.Long>>]),
          Preset("low", <<<<hierarchyLevelToTokens[level][1], tokenLength.Short>>>>)>>]

\* the tokens of the custom menu that are not off, long or short as chosen
RECURSIVE getCurrentCustom(_, _)
getCurrentCustom(tokens, choices) ==
    IF Len(tokens) = 0 THEN <<>>
    ELSE (IF choices[1] = "long" THEN <<<<tokens[1], tokenLength.Long>>>>
          ELSE IF choices[1] = "short" THEN <<<<tokens[1], tokenLength.Short>>>>
          ELSE <<>>)
         \o getCurrentCustom(Tail(tokens), Tail(choices))

\* settingsData[hierarchyLevel][presetName] = tokens: a known name keeps its
\* place among the keys, a new one comes last
setPreset(presets, presetName, tokens) ==
    IF \E i \in 1..Len(presets) : presets[i].name = presetName
    THEN [i \in 1..Len(presets) |->
             IF presets[i].name = presetName THEN Preset(presetName, tokens) ELSE presets[i]]
    ELSE Append(presets, Preset(presetName, tokens))

-----------------------------------------------------------------------------
(* Settings/commands: the keydown handler of the tree *)

\* export const hierarchyLevel, in the order of its declaration
hierarchyLevel == <<"root", "facet", "axis", "section", "datapoint">>

\* 2*1000 milliseconds, in seconds
TwoSeconds == 2

\* str.slice(start): a negative start counts from the end of the string
slice(str, start) ==
    LET from == IF start < 0
                THEN (IF Len(str) + start < 0 THEN 0 ELSE Len(str) + start)
                ELSE (IF start > Len(str) THEN Len(str) ELSE start)
    IN SubSeq(str, from + 1, Len(str))

\* t.keylog.slice(t.keylog.length - command.length) === command
endsWithCommand(log, command) == slice(log, Len(log) - Len(command)) = command

\* a key log that is emptied as soon as two seconds have passed
keylogAfterGapFrom(log, gap) == IF gap >= TwoSeconds THEN "" ELSE log

\* if ((timePressed - lastTimePressed) > 2*1000) t.keylog = ''
keylogAfterGap(log, gap) == IF gap > TwoSeconds THEN "" ELSE log

\* hLevel.slice(0, 1) + sLevel
verbosityCommand(hLevel, sLevel) == SubSeq(hLevel, 1, 1) \o sLevel

\* the for loop over the preset names of a level: the position of the first
\* name whose command ends the key log, 0 when the loop runs to its end
firstCommand(log, hLevel, presets) ==
    IF \E i \in 1..Len(presets) : endsWithCommand(log, verbosityCommand(hLevel, presets[i].name))
    THEN CHOOSE i \in 1..Len(presets) :
            /\ endsWithCommand(log, verbosityCommand(hLevel, presets[i].name))
            /\ \A j \in 1..(i - 1) :
                  ~endsWithCommand(log, verbosityCommand(hLevel, presets[j].name))
    ELSE 0

\* the callback of hierarchyLevel.forEach on the handler's state st, the key
\* log and the selects
verbosityStep(st, hLevel, settings) ==
    IF hLevel = "root" THEN st
    ELSE IF firstCommand(st.keylog, hLevel, settings[hLevel]) = 0 THEN st
    ELSE [st EXCEPT
            !.selects[hLevel] =
                Select(settings[hLevel][firstCommand(st.keylog, hLevel, settings[hLevel])].name),
            !.keylog = ""]

\* hierarchyLevel.forEach(...) over the first k levels
RECURSIVE verbosityCommands(_, _, _)
verbosityCommands(st, k, settings) ==
    IF k = 0 THEN st
    ELSE verbosityStep(verbosityCommands(st, k - 1, settings), hierarchyLevel[k], settings)

\* treeNode.description.has(token)
descriptionHas(node, token) ==
    \E k \in 1..Len(node.description) : node.description[k].token = token

\* treeNode.description.get(token)
descriptionGet(node, token) ==
    node.description[CHOOSE k \in 1..Len(node.description) :
                        node.description[k].token = token].desc

\* settingsData[hLevel][verbosity].find(x => x[0] === token)
findToken(preset, token) ==
    IF \E i \in 1..Len(preset) : preset[i][1] = token
    THEN CHOOSE i \in 1..Len(preset) :
            preset[i][1] = token /\ \A j \in 1..(i - 1) : preset[j][1] # token
    ELSE 0

\* the body of if (treeNode.description.has(token)): the select of the
\* root is null, a name that is no preset gives undefined, and so does find
\* for a token the preset does not list; reading a property of any of them
\* raises
spokenFragment(node, token, settings, selects) ==
    IF nodeTypeToHierarchyLevel[node.type] = "root" THEN Thrown
    ELSE IF ~selects[nodeTypeToHierarchyLevel[node.type]].exists THEN Thrown
    ELSE IF ~IsArray(presetTokens(settings, nodeTypeToHierarchyLevel[node.type],
                                  selects[nodeTypeToHierarchyLevel[node.type]].value))
    THEN Thrown
    ELSE IF findToken(presetTokens(settings, nodeTypeToHierarchyLevel[node.type],
                                   selects[nodeTypeToHierarchyLevel[node.type]].value),
                      token) = 0
    THEN Thrown
    ELSE [status |-> "spoken", token |-> token,
          text |-> descriptionGet(node, token)[
                       presetTokens(settings, nodeTypeToHierarchyLevel[node.type],
                                    selects[nodeTypeToHierarchyLevel[node.type]].value)[
                           findToken(presetTokens(settings, nodeTypeToHierarchyLevel[node.type],
                                                  selects[nodeTypeToHierarchyLevel[node.type]].value),
                                     token)][2] + 1]]

\* the callback of tokenType.forEach: once the handler has raised nothing
\* more of it runs
tokenStep(st, token, node, settings) ==
    IF st.status = "thrown" THEN st
    ELSE IF ~endsWithCommand(st.keylog, "." \o token) THEN st
    ELSE IF ~descriptionHas(node, token) THEN [st EXCEPT !.keylog = ""]
    ELSE IF spokenFragment(node, token, settings, st.selects) = Thrown
    THEN [st EXCEPT !.status = "thrown"]
    ELSE [st EXCEPT !.spoken = spokenFragment(node, token, settings, st.selects),
                    !.keylog = ""]

\* tokenType.forEach(...) over the first k tokens
RECURSIVE tokenCommands(_, _, _, _)
tokenCommands(st, k, node, settings) ==
    IF k = 0 THEN st
    ELSE tokenStep(tokenCommands(st, k - 1, node, settings), tokenType[k], node, settings)

\* the keydown listener from the test of the time on: what it leaves in the
\* key log and the selects, what it spoke and whether it raised
keydown(log, gap, key, node, settings, selects) ==
    tokenCommands(
        verbosityCommands([keylog |-> keylogAfterGap(log, gap) \o key, selects |-> selects,
                           spoken |-> Undefined, status |-> "returned"],
                          Len(hierarchyLevel), settings),
        Len(tokenType), node, settings)

-----------------------------------------------------------------------------
(* Inputs *)

MaxTicks == 4     \* longest tick array handed to the binner
MaxRows == 3      \* most data rows of a visualization spec

RECURSIVE SeqsUpTo(_, _)
SeqsUpTo(S, n) ==
    IF n = 0 THEN {<<>>}
    ELSE LET shorter == SeqsUpTo(S, n - 1)
         IN shorter \cup {Append(q, e) : q \in {r \in shorter : Len(r) = n - 1}, e \in S}

\* tick values: numbers, numeric and non-numeric strings, dates
TickValues ==
    {Num(-10), Num(0), Num(10), Num(20), Num(30)}
    \cup {Str("0"), Str("1,000"), Str("A")}
    \cup {DateOf(0), DateOf(365)}

TickArrays == SeqsUpTo(TickValues, MaxTicks)

Row(x, y, c) == [x |-> x, y |-> y, c |-> c]

Rows ==
    {Row(Num(0), Num(0), Str("A")), Row(Num(1), Num(2), Str("B")),
     Row(Num(3), Num(0), Num(1)), Row(DateOf(400), Num(2), Str("A"))}

Datasets == SeqsUpTo(Rows, MaxRows)

Axis(type, axisType, field, vals, scaleType) ==
    [type |-> type, axisType |-> axisType, field |-> field, values |-> vals,
     scaleType |-> scaleType, title |-> Undefined]

Legend(type, field, vals, scaleType) ==
    [type |-> type, field |-> field, values |-> vals, scaleType |-> scaleType,
     title |-> Undefined, channel |-> Undefined]

XC == Axis("continuous", "x", "x", <<Num(1), Num(2)>>, "quantitative")
XC0 == Axis("continuous", "x", "x", <<Num(0), Num(2)>>, "quantitative")
XCs == Axis("continuous", "x", "x", <<Str("0"), Str("2"), Str("4")>>, "quantitative")
XC1 == Axis("continuous", "x", "x", <<Num(1)>>, "linear")
XYear == Axis("continuous", "x", "x", <<Num(1970), Num(1971)>>, "temporal")
XDate == Axis("continuous", "x", "x", <<DateOf(0), DateOf(365)>>, "temporal")
X2 == Axis("continuous", "x", "y", <<Num(0), Num(2)>>, "linear")
YC == Axis("continuous", "y", "y", <<Num(0), Num(2)>>, "quantitative")
YC1 == Axis("continuous", "y", "y", <<Num(1), Num(2), Num(3)>>, "linear")
XD == Axis("discrete", "x", "c", <<Str("A"), Str("B")>>, "nominal")
XDn == Axis("discrete", "x", "c", <<Num(1), Str("B"), Str("A")>>, "ordinal")
YD == Axis("discrete", "y", "c", <<Str("B"), Str("A")>>, "nominal")
LD == Legend("discrete", "c", <<Str("A"), Str("B")>>, "nominal")
LDn == Legend("discrete", "c", <<Str("1"), Str("A")>>, "nominal")
LC == Legend("continuous", "y", <<Num(0), Num(2)>>, "quantitative")

Shape(mark, axes, legends) ==
    [mark |-> mark, axes |-> axes, legends |-> legends, title |-> Undefined]

Titled(shape, title) == [shape EXCEPT !.title = Str(title)]

\* a discrete axis with a title, a legend with a title and a channel
XDt == [XD EXCEPT !.title = Str("Category")]
LDc == [LD EXCEPT !.title = Str("Kind"), !.channel = Str("color")]

\* the marks, axes and legends of the charts that are built
ChartShapes ==
    {Shape("point", <<XC, YC>>, <<>>),
     Shape("point", <<XC0, YC1>>, <<LD>>),
     Shape("point", <<YC, XCs>>, <<>>),
     Shape("point", <<XC1, YC>>, <<>>),
     Shape("point", <<XC, X2>>, <<>>),
     Shape("point", <<XYear, YC1>>, <<LC>>),
     Shape("point", <<XD, YC>>, <<>>),
     Shape("point", <<XC, YC1, XD>>, <<>>),
     Shape("point", <<>>, <<LD>>),
     Shape("bar", <<XD, YC>>, <<LD>>),
     Shape("bar", <<XC, YC>>, <<>>),
     Shape("bar", <<YC1, YD>>, <<LDn, LC>>),
     Shape("line", <<XDate, YC1>>, <<LD>>),
     Shape("line", <<XYear>>, <<>>),
     Shape("line", <<XC0>>, <<LDn>>),
     Shape("line", <<XDn>>, <<LD>>),
     Shape("line", <<YD, XD>>, <<>>),
     Titled(Shape("bar", <<XDt, YC>>, <<LDc>>), "Sales"),
     Titled(Shape("point", <<YC, XC0>>, <<LDc>>), "Scatter"),
     Shape("point", <<XC, YC>>, <<LC>>)}

Chart(shape, data) ==
    [type |-> "chart", mark |-> shape.mark, axes |-> shape.axes,
     legends |-> shape.legends, data |-> data, title |-> shape.title]

\* the facet map in iteration order, every facet drawn the same way
FacetKeyLists == {<<"A", "B">>, <<"B", "A", "1">>, <<"A">>}

FacetShapes ==
    {Shape("point", <<XC0, YC1>>, <<>>),
     Shape("bar", <<YC1, XD>>, <<LD>>),
     Titled(Shape("line", <<XDn>>, <<>>), "Lines")}

FacetedChart(keys, shape, data) ==
    [type |-> "facetedChart", facetedField |-> "c", title |-> shape.title,
     charts |-> [k \in 1..Len(keys) |-> <<keys[k], Chart(shape, <<>>)>>],
     data |-> data]

\* facets of a field that is the empty string in some rows
EmptyKeySpecs ==
    {FacetedChart(<<"">>, Shape("point", <<XC0, YC1>>, <<>>),
                  <<Row(Num(1), Num(2), Str(""))>>),
     FacetedChart(<<"A", "">>, Shape("line", <<XD>>, <<LD>>),
                  <<Row(Num(1), Num(2), Str("")), Row(Num(0), Num(0), Str("A"))>>)}

VisSpecs ==
    {Chart(shape, data) : shape \in ChartShapes, data \in Datasets}
    \cup {FacetedChart(keys, shape, data) :
             keys \in FacetKeyLists, shape \in FacetShapes, data \in Datasets}
    \cup EmptyKeySpecs
    \cup {[type |-> "table", data |-> <<>>]}

-----------------------------------------------------------------------------
(* The builder: olliVisSpecToTree applied to a visualization spec *)

Init ==
    /\ olliVisSpec \in VisSpecs
    /\ tree = NotCalled
    /\ values = <<>>
    /\ intervals = NotCalled
    /\ settingsData = defaultSettingsData
    /\ dropdowns = [level \in SettingsLevels |-> NoElement]
    /\ described = NotCalled
    /\ keylog = ""
    /\ sinceLastPress = 0
    /\ focus = 1
    /\ handled = NotCalled

BuildTree ==
    /\ tree = NotCalled
    /\ tree' = olliVisSpecToTree(olliVisSpec)
    /\ olliVisSpec' = specAfterBuild(olliVisSpec)
    /\ UNCHANGED <<values, intervals, settingsData, dropdowns, described>>
    /\ UNCHANGED keyVars

Next == BuildTree

Spec == Init /\ [][Next]_vars

(* The binner: axisValuesToIntervals applied to a tick array *)

InitBinner ==
    /\ olliVisSpec = [type |-> "table", data |-> <<>>]
    /\ tree = NotCalled
    /\ values \in TickArrays
    /\ intervals = NotCalled
    /\ settingsData = defaultSettingsData
    /\ dropdowns = [level \in SettingsLevels |-> NoElement]
    /\ described = NotCalled
    /\ keylog = ""
    /\ sinceLastPress = 0
    /\ focus = 1
    /\ handled = NotCalled

BinValues ==
    /\ intervals = NotCalled
    /\ intervals' = [status |-> "returned", value |-> axisValuesToIntervals(values)]
    /\ UNCHANGED <<olliVisSpec, tree, values, settingsData, dropdowns, described>>
    /\ UNCHANGED keyVars

NextBinner == BinValues

SpecBinner == InitBinner /\ [][NextBinner]_vars

-----------------------------------------------------------------------------
(* Properties of the Interval Binner, under SpecBinner *)

\* the number a tick stands for: the binner strips the commas of a string
TickNumber(v) == IF IsStr(v) THEN ParseNumber(RemoveChar(v.str, ",")) ELSE ToNumber(v)

TicksAreDates(vals) == Len(vals) > 0 /\ \A i \in 1..Len(vals) : "date" \in DOMAIN vals[i]

\* numbers only, numeric strings only or dates only, in ascending order
AscendingTicks(vals) ==
    /\ \/ \A i \in 1..Len(vals) : IsNum(vals[i])
       \/ \A i \in 1..Len(vals) : IsStr(vals[i])
       \/ \A i \in 1..Len(vals) : "date" \in DOMAIN vals[i]
    /\ \A i \in 1..Len(vals) : IsNum(TickNumber(vals[i]))
    /\ \A i, j \in 1..Len(vals) : i < j => TickNumber(vals[i]).num <= TickNumber(vals[j]).num

\* the i-th tick of the array being binned, as a number
T(i) == TickNumber(values[i]).num

\* an interval bound of the type the array being binned calls for
B(n) == IF TicksAreDates(values) THEN DateOf(n) ELSE Num(n)

Binned == intervals.status = "returned"

\* the buckets between consecutive ticks
InteriorBuckets == [i \in 1..(Len(values) - 1) |-> <<B(T(i)), B(T(i + 1))>>]

\* the synthesized bucket beyond the last tick
AboveBucket ==
    <<B(T(Len(values))), B(T(Len(values)) + (T(Len(values)) - T(Len(values) - 1)))>>

\* the synthesized bucket below the first tick
BelowBucket == <<B(T(1) - (T(2) - T(1))), B(T(1))>>

\* C3: in the interval list of an ascending tick array each interval's upper
\* bound is the next interval's lower bound
C3_ConsecutiveIntervalsShareBoundary ==
    (Binned /\ AscendingTicks(values)) =>
        \A i \in 1..(Len(intervals.value) - 1) :
            intervals.value[i][2] = intervals.value[i + 1][1]

C3_Witness ==
    /\ Binned
    /\ AscendingTicks(values)
    /\ Len(values) = 3
    /\ T(1) # 0
    /\ Len(intervals.value) = 4

\* C7 as stated: a first tick of 0 leaves only the buckets between consecutive
\* ticks, so that <<0, 10, 20, 30>> gives 3 buckets
C7_Original ==
    (Binned /\ AscendingTicks(values) /\ Len(values) >= 1 /\ T(1) = 0) =>
        /\ intervals.value = InteriorBuckets
        /\ values = <<Num(0), Num(10), Num(20), Num(30)>> => Len(intervals.value) = 3

\* C7 amended: a first tick of 0 leaves out the bucket below the first tick
\* only; with two ticks or more the buckets between consecutive ticks are
\* followed by the synthesized bucket beyond the last tick, so that
\* <<0, 10, 20, 30>> gives <<0,10>>, <<10,20>>, <<20,30>>, <<30,40>>; a single
\* tick 0 gives no bucket
C7_ZeroFirstTickKeepsAboveBucket ==
    (Binned /\ AscendingTicks(values) /\ Len(values) >= 1 /\ T(1) = 0) =>
        /\ Len(values) >= 2 => intervals.value = InteriorBuckets \o <<AboveBucket>>
        /\ Len(values) = 1 => intervals.value = <<>>
        /\ values = <<Num(0), Num(10), Num(20), Num(30)>> =>
              intervals.value = <<<<Num(0), Num(10)>>, <<Num(10), Num(20)>>,
                                  <<Num(20), Num(30)>>, <<Num(30), Num(40)>>>>

C7_Witness ==
    /\ Binned
    /\ values = <<Num(0), Num(10), Num(20), Num(30)>>
    /\ Len(intervals.value) = 4

\* C8 as stated: n ticks give n intervals when the first tick is 0 and n + 1
\* intervals otherwise
C8_Original ==
    (Binned /\ AscendingTicks(values) /\ Len(values) >= 1) =>
        Len(intervals.value) = IF T(1) = 0 THEN Len(values) ELSE Len(values) + 1

\* C8 amended: an ascending array of n >= 2 ticks gives n intervals when the
\* first tick is 0 and n + 1 intervals otherwise
C8_IntervalCountFromTwoTicks ==
    (Binned /\ AscendingTicks(values) /\ Len(values) >= 2) =>
        Len(intervals.value) = IF T(1) = 0 THEN Len(values) ELSE Len(values) + 1

C8_Witness ==
    /\ Binned
    /\ AscendingTicks(values)
    /\ Len(values) = 3
    /\ T(1) = 0
    /\ T(2) # 0
    /\ Len(intervals.value) = 3

\* C9: an ascending array of n >= 2 ticks with a nonzero first tick gives the
\* bucket below the first tick, the buckets between consecutive ticks and the
\* bucket beyond the last tick, in this order
C9_NonzeroFirstTickBuckets ==
    (Binned /\ AscendingTicks(values) /\ Len(values) >= 2 /\ T(1) # 0) =>
        intervals.value = <<BelowBucket>> \o InteriorBuckets \o <<AboveBucket>>

C9_Witness ==
    /\ Binned
    /\ values = <<Num(10), Num(20), Num(30)>>
    /\ intervals.value = <<<<Num(0), Num(10)>>, <<Num(10), Num(20)>>,
                           <<Num(20), Num(30)>>, <<Num(30), Num(40)>>>>

-----------------------------------------------------------------------------
(* Properties of the Tree Builder, under Spec *)

Built == tree.status = "returned"

\* a node and everything below it, in depth-first order
RECURSIVE SubNodes(_)
SubNodes(node) ==
    <<node>> \o Flatten([k \in 1..Len(node.children) |-> SubNodes(node.children[k])])

TreeNodes == IF Built THEN SubNodes(tree.root) ELSE <<>>

\* the concatenation, in child order, of the children's selected
ChildrenSelected(node) ==
    Flatten([k \in 1..Len(node.children) |-> node.children[k].selected])

\* s can be obtained from t by deleting elements
RECURSIVE IsSubsequence(_, _)
IsSubsequence(s, t) ==
    IF s = <<>> THEN TRUE
    ELSE IF t = <<>> THEN FALSE
    ELSE IF Head(s) = Head(t) THEN IsSubsequence(Tail(s), Tail(t))
    ELSE IsSubsequence(s, Tail(t))

Occurs(row, rows) == \E i \in 1..Len(rows) : rows[i] = row

\* the chart nodes of the tree, each with the chart it was built from
ChartNodes ==
    IF ~Built THEN <<>>
    ELSE IF olliVisSpec.type = "chart"
    THEN <<[node |-> tree.root, chart |-> olliVisSpec]>>
    ELSE [f \in 1..Len(olliVisSpec.charts) |->
             [node |-> tree.root.children[f], chart |-> olliVisSpec.charts[f][2]]]

\* the xAxis / yAxis nodes of the tree, each with its guide
AxisNodes ==
    LET charts == ChartNodes
    IN Flatten([c \in 1..Len(charts) |->
          [k \in 1..Len(filteredAxes(charts[c].chart)) |->
              [node |-> charts[c].node.children[k],
               guide |-> filteredAxes(charts[c].chart)[k]]]])

\* the legend nodes of the tree, each with its guide
LegendNodes ==
    LET charts == ChartNodes
    IN Flatten([c \in 1..Len(charts) |->
          [k \in 1..Len(charts[c].chart.legends) |->
              [node |-> charts[c].node.children[Len(filteredAxes(charts[c].chart)) + k],
               guide |-> charts[c].chart.legends[k]]]])

\* the grid nodes of the tree, each with the chart it belongs to
GridNodes ==
    LET charts == ChartNodes
    IN Flatten([c \in 1..Len(charts) |->
          LET kids == charts[c].node.children
          IN IF Len(kids) > 0 /\ kids[Len(kids)].type = "grid"
             THEN <<[node |-> kids[Len(kids)], chart |-> charts[c].chart]>>
             ELSE <<>>])

\* C1 as stated: the selected of every node but a data leaf is the
\* concatenation, in child order, of its children's selected
C1_Original ==
    LET nodes == TreeNodes
    IN \A n \in 1..Len(nodes) :
          nodes[n].type # "data" => nodes[n].selected = ChildrenSelected(nodes[n])

\* C1 amended: the selected of a filteredData node is the concatenation, in
\* child order, of its data children's selected; for every other node that is
\* not a data leaf the selected of each child is an order-preserving
\* subsequence of the node's selected
C1_SelectedOfChildren ==
    LET nodes == TreeNodes
    IN \A n \in 1..Len(nodes) :
          /\ nodes[n].type = "filteredData" =>
                nodes[n].selected = ChildrenSelected(nodes[n])
          /\ nodes[n].type \notin {"data", "filteredData"} =>
                \A k \in 1..Len(nodes[n].children) :
                    IsSubsequence(nodes[n].children[k].selected, nodes[n].selected)

C1_Witness ==
    /\ Built
    /\ tree.root.type = "chart"
    /\ Len(tree.root.children) >= 2
    /\ Len(tree.root.selected) >= 2
    /\ LET nodes == TreeNodes
       IN \E n \in 1..Len(nodes) :
             nodes[n].type = "filteredData" /\ Len(nodes[n].children) >= 2

\* C2: every row of a continuous xAxis / yAxis node is in the selected of one
\* of its filteredData children
C2_NoRowDroppedByBinning ==
    LET axes == AxisNodes
    IN \A a \in 1..Len(axes) :
          axes[a].guide.type = "continuous" =>
              \A r \in 1..Len(axes[a].node.selected) :
                  \E k \in 1..Len(axes[a].node.children) :
                      Occurs(axes[a].node.selected[r], axes[a].node.children[k].selected)

\* the root's rows of one facet key
FacetRows(key) ==
    SelectSeq(tree.root.selected,
              LAMBDA row : JSString(row[olliVisSpec.facetedField]) = key)

FacetedBuilt == Built /\ olliVisSpec.type = "facetedChart"

\* C4 as stated: the concatenation of the facet children's selected is the
\* root's selected
C4_Original ==
    FacetedBuilt => ChildrenSelected(tree.root) = tree.root.selected

\* C4 amended: the concatenation of the facet children's selected is the
\* root's rows grouped by facet key in map order, with the original row order
\* within a facet: a row whose facet field prints as one of the keys is in
\* exactly one facet child, and a row that matches no key is in none
C4_FacetsGroupRootRows ==
    FacetedBuilt =>
        /\ Len(tree.root.children) = Len(olliVisSpec.charts)
        /\ ChildrenSelected(tree.root) =
              Flatten([f \in 1..Len(olliVisSpec.charts) |->
                          FacetRows(olliVisSpec.charts[f][1])])
        /\ \A r \in 1..Len(tree.root.selected) :
              Cardinality({f \in 1..Len(tree.root.children) :
                              Occurs(tree.root.selected[r],
                                     tree.root.children[f].selected)})
              = IF \E f \in 1..Len(olliVisSpec.charts) :
                      olliVisSpec.charts[f][1]
                      = JSString(tree.root.selected[r][olliVisSpec.facetedField])
                THEN 1 ELSE 0

C4_Witness ==
    /\ FacetedBuilt
    /\ Len(tree.root.children) >= 2
    /\ Len(tree.root.selected) = 3
    /\ Len(ChildrenSelected(tree.root)) = 3
    /\ ChildrenSelected(tree.root) # tree.root.selected
    /\ \E r \in 1..3 : IsNum(tree.root.selected[r][olliVisSpec.facetedField])

\* the rows of a grid that one bound of a cell keeps, the filter being
\* applied to the grid's own selected
GridRowsInBound(grid, orient, bound) ==
    filterInterval(grid.node.selected, findAxis(grid.chart, orient).field,
                   bound[1], bound[2])

\* C5: the selected of a grid cell is the rows of the grid that are both in
\* the cell's x bound and in the cell's y bound, in the grid's row order
C5_GridCellIsIntersection ==
    LET grids == GridNodes
    IN \A g \in 1..Len(grids) :
          \A k \in 1..Len(grids[g].node.children) :
              LET cell == grids[g].node.children[k]
                  inX == GridRowsInBound(grids[g], "x", cell.filterValue[1])
                  inY == GridRowsInBound(grids[g], "y", cell.filterValue[2])
              IN cell.selected =
                    SelectSeq(grids[g].node.selected,
                              LAMBDA row : Occurs(row, inX) /\ Occurs(row, inY))

C5_Witness ==
    LET grids == GridNodes
    IN \E g \in 1..Len(grids) :
          \E k \in 1..Len(grids[g].node.children) :
              LET cell == grids[g].node.children[k]
              IN /\ Len(cell.selected) = 1
                 /\ Len(GridRowsInBound(grids[g], "x", cell.filterValue[1])) = 2
                 /\ Len(GridRowsInBound(grids[g], "y", cell.filterValue[2])) = 2

\* C6: a grid has one child per pair of an x interval and a y interval, x
\* being the outer loop: the child at 0-based position p has the filterValue
\* <<xIntervals[p div ny], yIntervals[p mod ny]>> and the gridIndex
\* {i: p div ny, j: p mod ny}, and no two children share a gridIndex
C6_GridIsCrossProduct ==
    LET grids == GridNodes
    IN \A g \in 1..Len(grids) :
          LET xIntervals == axisValuesToIntervals(findAxis(grids[g].chart, "x").values)
              yIntervals == axisValuesToIntervals(findAxis(grids[g].chart, "y").values)
              cells == grids[g].node.children
              ny == Len(yIntervals)
          IN /\ Len(cells) = Len(xIntervals) * ny
             /\ \A p \in 0..(Len(cells) - 1) :
                   /\ cells[p + 1].type = "filteredData"
                   /\ cells[p + 1].filterValue
                         = <<xIntervals[(p \div ny) + 1], yIntervals[(p % ny) + 1]>>
                   /\ cells[p + 1].gridIndex = [i |-> p \div ny, j |-> p % ny]
             /\ \A p, q \in 1..Len(cells) :
                   cells[p].gridIndex = cells[q].gridIndex => p = q

C6_Witness ==
    LET grids == GridNodes
    IN \E g \in 1..Len(grids) :
          /\ Len(grids[g].node.children) = 12
          /\ grids[g].node.children[5].gridIndex = [i |-> 1, j |-> 0]

\* the axis and legend nodes built from a discrete guide
DiscreteGuideNodes ==
    SelectSeq(AxisNodes \o LegendNodes, LAMBDA a : a.guide.type = "discrete")

\* C10: a discrete axis or legend has one filteredData child per guide value,
\* in guide-value order, and the k-th child's selected is the node's rows
\* whose guide field prints as the k-th value does, in row order
C10_DiscreteGuideChildren ==
    LET guides == DiscreteGuideNodes
    IN \A a \in 1..Len(guides) :
        LET node == guides[a].node
            guide == guides[a].guide
        IN /\ Len(node.children) = Len(guide.values)
           /\ \A k \in 1..Len(guide.values) :
                 /\ node.children[k].type = "filteredData"
                 /\ node.children[k].selected =
                       SelectSeq(node.selected,
                                 LAMBDA row : JSString(row[guide.field])
                                              = JSString(guide.values[k]))

\* values <<"A", "B">> over rows A, B, A give selected lengths <<2, 1>>, and a
\* number row is kept by the guide value that prints as it does
C10_Witness ==
    LET guides == DiscreteGuideNodes
    IN
    /\ \E a \in 1..Len(guides) :
          LET node == guides[a].node
              guide == guides[a].guide
          IN /\ node.type = "legend"
             /\ guide.values = <<Str("A"), Str("B")>>
             /\ [r \in 1..Len(node.selected) |-> node.selected[r][guide.field]]
                   = <<Str("A"), Str("B"), Str("A")>>
             /\ [k \in 1..Len(node.children) |-> Len(node.children[k].selected)] = <<2, 1>>
    /\ \E a \in 1..Len(guides) : guides[a].node.type \in {"xAxis", "yAxis"}

-----------------------------------------------------------------------------
(* Properties of the chart case, under Spec *)

\* the fragments a node's description holds for a token
DescOf(node, token) ==
    LET k == CHOOSE k \in 1..Len(node.description) : node.description[k].token = token
    IN node.description[k].desc

\* what an xAxis / yAxis child of a chart node shows of its axis: the node
\* type, the axis name, the scale and the summary of the axis values
IsNodeOfAxis(node, axis) ==
    /\ node.type = (IF axis.axisType = "x" THEN "xAxis" ELSE "yAxis")
    /\ DescOf(node, "name") = Fill(axis.axisType \o "-axis " \o guideTitle(axis))
    /\ DescOf(node, "type")[1] = axisScaleType(axis)
    /\ DescOf(node, "data") = dataToken([type |-> node.type], axis)
    /\ Len(node.children) > 0 => node.children[1].type = "filteredData"
    /\ axis.type = "discrete" => Len(node.children) = Len(axis.values)

\* what a legend child of a chart node shows of its legend
IsNodeOfLegend(node, legend) ==
    /\ node.type = "legend"
    /\ DescOf(node, "name") = Fill("legend " \o guideTitle(legend))
    /\ DescOf(node, "data") = dataToken([type |-> "legend"], legend)

AxisChildren(node) == SelectSeq(node.children, LAMBDA c : c.type \in {"xAxis", "yAxis"})

DiscreteAxes(chart) == SelectSeq(chart.axes, LAMBDA a : a.type = "discrete")

ContinuousAxes(chart) == SelectSeq(chart.axes, LAMBDA a : a.type = "continuous")

\* C11: under a chart node whose mark is bar, no xAxis / yAxis child is the
\* node of a continuous axis, and the xAxis / yAxis children are the nodes of
\* the chart's discrete axes, one each, in axis order
C11_BarChartDropsContinuousAxes ==
    LET charts == ChartNodes
    IN \A c \in 1..Len(charts) :
          charts[c].chart.mark = "bar" =>
             LET kids == AxisChildren(charts[c].node)
                 discrete == DiscreteAxes(charts[c].chart)
                 continuous == ContinuousAxes(charts[c].chart)
             IN /\ \A k \in 1..Len(kids) : \A a \in 1..Len(continuous) :
                      ~IsNodeOfAxis(kids[k], continuous[a])
                /\ Len(kids) = Len(discrete)
                /\ \A k \in 1..Len(discrete) : IsNodeOfAxis(kids[k], discrete[k])

\* a bar chart with a continuous axis listed before its discrete axis, built
\* with the discrete axis as its only axis child
C11_Witness ==
    /\ Built
    /\ olliVisSpec.type = "chart"
    /\ olliVisSpec.mark = "bar"
    /\ Len(olliVisSpec.axes) = 2
    /\ olliVisSpec.axes[1].type = "continuous"
    /\ olliVisSpec.axes[2].type = "discrete"
    /\ Len(AxisChildren(tree.root)) = 1
    /\ IsNodeOfAxis(tree.root.children[1], olliVisSpec.axes[2])

\* the axes of a chart that have a child node
ShownAxes(chart) == IF chart.mark = "bar" THEN DiscreteAxes(chart) ELSE chart.axes

\* C12: the children of a chart node are the nodes of its shown axes in
\* axis-list order, then the nodes of its legends in legend-list order, then
\* at most one grid node, and nothing else
C12_ChartChildrenOrder ==
    LET charts == ChartNodes
    IN \A c \in 1..Len(charts) :
          LET kids == charts[c].node.children
              axes == ShownAxes(charts[c].chart)
              legends == charts[c].chart.legends
              na == Len(axes)
              nl == Len(legends)
          IN /\ Len(kids) \in {na + nl, na + nl + 1}
             /\ \A k \in 1..na : IsNodeOfAxis(kids[k], axes[k])
             /\ \A k \in 1..nl : IsNodeOfLegend(kids[na + k], legends[k])
             /\ Len(kids) = na + nl + 1 => kids[na + nl + 1].type = "grid"

\* a chart whose y axis is listed before its x axis, with a legend and a grid
C12_Witness ==
    /\ Built
    /\ olliVisSpec.type = "chart"
    /\ [k \in 1..Len(olliVisSpec.axes) |-> olliVisSpec.axes[k].axisType] = <<"y", "x">>
    /\ [k \in 1..Len(tree.root.children) |-> tree.root.children[k].type]
          = <<"yAxis", "xAxis", "legend", "grid">>

GridChildren(node) == SelectSeq(node.children, LAMBDA c : c.type = "grid")

\* C13: a chart node has a grid child exactly when the mark is point and the
\* chart has two axes, both continuous, and it never has two grid children
C13_GridIffPointWithTwoContinuousAxes ==
    LET charts == ChartNodes
    IN \A c \in 1..Len(charts) :
          /\ Len(GridChildren(charts[c].node)) <= 1
          /\ Len(GridChildren(charts[c].node)) = 1
                <=> /\ charts[c].chart.mark = "point"
                    /\ Len(charts[c].chart.axes) = 2
                    /\ \A a \in 1..2 : charts[c].chart.axes[a].type = "continuous"

\* a point chart with two continuous axes and a legend, built with the grid
\* as its fourth child
C13_Witness ==
    /\ Built
    /\ olliVisSpec.type = "chart"
    /\ olliVisSpec.mark = "point"
    /\ Len(olliVisSpec.legends) = 1
    /\ Len(GridChildren(tree.root)) = 1
    /\ tree.root.children[4].type = "grid"

-----------------------------------------------------------------------------
(* Properties of the legend case, under Spec *)

\* the charts of a visualization spec: the chart itself, or the chart of
\* each facet
ChartsOf(spec) ==
    IF spec.type = "chart" THEN <<spec>>
    ELSE IF spec.type = "facetedChart"
    THEN [f \in 1..Len(spec.charts) |-> spec.charts[f][2]]
    ELSE <<>>

HasContinuousLegend(spec) ==
    \E c \in 1..Len(ChartsOf(spec)) : \E l \in 1..Len(ChartsOf(spec)[c].legends) :
        ChartsOf(spec)[c].legends[l].type = "continuous"

\* C14: once olliVisSpecToTree was called on a spec that has a continuous
\* legend, a tree was returned, and in it every node of a continuous legend
\* has no children
C14_ContinuousLegendBuilds ==
    (tree # NotCalled /\ HasContinuousLegend(olliVisSpec)) =>
        /\ Built
        /\ LET legends == LegendNodes
           IN \A l \in 1..Len(legends) :
                 legends[l].guide.type = "continuous" =>
                    /\ legends[l].node.type = "legend"
                    /\ Len(legends[l].node.children) = 0

-----------------------------------------------------------------------------
(* Properties of olliVisSpecToTree, under Spec *)

\* the field of every axis, then of every legend, of a chart
FieldsOfChart(chart) ==
    [k \in 1..Len(chart.axes) |-> chart.axes[k].field]
    \o [k \in 1..Len(chart.legends) |-> chart.legends[k].field]

\* every field reference of a spec in order: the facet field if any, then
\* the fields of each chart in map-iteration order
FieldReferences(spec) ==
    IF spec.type = "facetedChart"
    THEN <<spec.facetedField>>
         \o Flatten([f \in 1..Len(spec.charts) |-> FieldsOfChart(spec.charts[f][2])])
    ELSE FieldsOfChart(spec)

FirstOccurrence(field, fields) ==
    CHOOSE i \in 1..Len(fields) : fields[i] = field /\ \A j \in 1..(i - 1) : fields[j] # field

\* C15: fieldsUsed holds every referenced field exactly once, in the order of
\* the first references, and the facet field first for a faceted chart
C15_FieldsUsedOrderedAndUnique ==
    Built =>
       LET used == tree.fieldsUsed
           refs == FieldReferences(olliVisSpec)
       IN /\ {used[i] : i \in 1..Len(used)} = {refs[i] : i \in 1..Len(refs)}
          /\ \A i, j \in 1..Len(used) : used[i] = used[j] => i = j
          /\ \A i, j \in 1..Len(used) :
                i < j => FirstOccurrence(used[i], refs) < FirstOccurrence(used[j], refs)
          /\ olliVisSpec.type = "facetedChart" => used[1] = olliVisSpec.facetedField

\* a faceted chart whose facet field is also the field of an axis and of a
\* legend of every facet
C15_Witness ==
    /\ Built
    /\ olliVisSpec.type = "facetedChart"
    /\ Len(olliVisSpec.charts) = 2
    /\ FieldReferences(olliVisSpec) = <<"c", "y", "c", "c", "y", "c", "c">>
    /\ tree.fieldsUsed = <<"c", "y">>

\* C16: for a spec whose type is neither chart nor facetedChart the call
\* raises and returns nothing; the root of a returned tree is a chart node
\* for a chart and a multiView node for a faceted chart, and its parent is
\* null
C16_UnknownSpecTypeRaises ==
    tree # NotCalled =>
       /\ olliVisSpec.type \notin {"chart", "facetedChart"} => tree = Thrown
       /\ (Built /\ olliVisSpec.type = "chart") =>
             tree.root.type = "chart" /\ tree.root.parent = Null
       /\ (Built /\ olliVisSpec.type = "facetedChart") =>
             tree.root.type = "multiView" /\ tree.root.parent = Null

\* the call on a spec of an unknown type has raised
C16_Witness ==
    /\ olliVisSpec.type = "table"
    /\ tree = Thrown

-----------------------------------------------------------------------------
(* Properties of the Interval Binner on malformed ticks, under SpecBinner *)

\* a number, or a string that stands for a number once its commas are removed
IsNumericTick(v) ==
    \/ IsNum(v)
    \/ IsStr(v) /\ Len(v.str) > 0 /\ IsNum(ParseNumber(RemoveChar(v.str, ",")))

\* a tick array that is neither all-numeric nor all-date
MalformedTicks(vals) ==
    /\ \E i \in 1..Len(vals) : ~IsNumericTick(vals[i])
    /\ \E i \in 1..Len(vals) : ~IsDate(vals[i])

\* C17: once axisValuesToIntervals was called on a tick array that is neither
\* all-numeric nor all-date, it has raised instead of returning intervals
C17_MalformedTicksRaise ==
    (intervals # NotCalled /\ MalformedTicks(values)) => intervals = Thrown

-----------------------------------------------------------------------------
(* Frame of the Tree Builder, under Spec *)

-----------------------------------------------------------------------------
(* Properties of the data leaves, under Spec *)

\* the data nodes below a guide node or a grid node
DataLeaves(node) ==
    Flatten([s \in 1..Len(node.children) |-> node.children[s].children])

\* the data nodes of the tree, each with the fields its place makes known:
\* the field of the guide it lies under, none under a grid
DataNodes ==
    Flatten([g \in 1..Len(AxisNodes \o LegendNodes) |->
        [d \in 1..Len(DataLeaves((AxisNodes \o LegendNodes)[g].node)) |->
            [node |-> DataLeaves((AxisNodes \o LegendNodes)[g].node)[d],
             known |-> <<(AxisNodes \o LegendNodes)[g].guide.field>>]]])
    \o Flatten([g \in 1..Len(GridNodes) |->
        [d \in 1..Len(DataLeaves(GridNodes[g].node)) |->
            [node |-> DataLeaves(GridNodes[g].node)[d], known |-> <<>>]]])

\* the facet field of a faceted tree
FacetFields == IF olliVisSpec.type = "facetedChart" THEN <<olliVisSpec.facetedField>> ELSE <<>>

Without(fields, dropped) ==
    SelectSeq(fields, LAMBDA f : \A i \in 1..Len(dropped) : dropped[i] # f)

\* fieldsUsed with the guide field, then the facet field, moved to the end
ContextLast(fieldsUsed, known, facet) ==
    Without(fieldsUsed, known \o facet) \o Without(known, facet) \o facet

\* C21: the tableKeys of every data node are the fieldsUsed of the tree with
\* the field of the guide above the node moved behind every other field but
\* the facet field, and the facet field of a faceted tree moved to the very
\* end, the other fields keeping their order
C21_TableKeysContextLast ==
    \A d \in 1..Len(DataNodes) :
        DataNodes[d].node.tableKeys =
            ContextLast(tree.fieldsUsed, DataNodes[d].known, FacetFields)

-----------------------------------------------------------------------------
(* Properties of the description tokens, under Spec *)

\* C23: the aggregate token of a grid node raises and the raise ends the
\* construction, so no tree that is returned holds a grid node whose
\* description has an aggregate entry
C23_GridAggregateRaises ==
    \A g \in 1..Len(GridNodes) :
        \A k \in 1..Len(GridNodes[g].node.description) :
            GridNodes[g].node.description[k].token # "aggregate"

\* the text "k of n"
PositionText(k, n) == ToString(k) \o " of " \o ToString(n)

\* C24: for every chart node and every filteredData node that is the k-th of
\* the n children of its parent, both fragments of the index token are
\* "k of n", whether the parent is a multiView, an axis, a legend or a
\* grid; for a node of any other type the index function raises
C24_IndexIsPositionAmongSiblings ==
    \A n \in 1..Len(TreeNodes) :
        /\ \A k \in 1..Len(TreeNodes[n].children) :
              TreeNodes[n].children[k].type \in {"chart", "filteredData"} =>
                  \E e \in 1..Len(TreeNodes[n].children[k].description) :
                      /\ TreeNodes[n].children[k].description[e].token = "index"
                      /\ TreeNodes[n].children[k].description[e].desc =
                            <<PositionText(k, Len(TreeNodes[n].children)),
                              PositionText(k, Len(TreeNodes[n].children))>>
        /\ TreeNodes[n].type \notin {"chart", "filteredData"} =>
              indexToken(TreeNodes[n], Num(0), Num(1)) = Thrown

-----------------------------------------------------------------------------
(* Properties of the filteredData and data cases, under Spec *)

\* a node and everything below it, each with the child positions that lead
\* to it from the root
RECURSIVE SubNodesAt(_, _)
SubNodesAt(node, path) ==
    <<[node |-> node, path |-> path]>>
    \o Flatten([k \in 1..Len(node.children) |->
                   SubNodesAt(node.children[k], Append(path, k))])

PlacedNodes == IF Built THEN SubNodesAt(tree.root, <<>>) ELSE <<>>

PlacedOfType(placed, type) ==
    {placed[i] : i \in {i \in 1..Len(placed) : placed[i].node.type = type}}

FilteredDataNodes == PlacedOfType(PlacedNodes, "filteredData")

\* C25: every filteredData node has one data child per row of its selected,
\* in row order: the k-th child is a data node that selects the k-th row
\* alone, has the filteredData node as its parent and has no children
C25_DataChildPerRow ==
    \A f \in FilteredDataNodes :
        /\ Len(f.node.children) = Len(f.node.selected)
        /\ \A k \in 1..Len(f.node.children) :
              /\ f.node.children[k].type = "data"
              /\ f.node.children[k].selected = <<f.node.selected[k]>>
              /\ f.node.children[k].parent = Ref(f.path, "filteredData")
              /\ f.node.children[k].children = <<>>

\* a filteredData node of two different rows, with its two data leaves
C25_Witness ==
    \E f \in FilteredDataNodes :
        /\ Len(f.node.selected) = 2
        /\ f.node.selected[1] # f.node.selected[2]
        /\ Len(f.node.children) = 2
        /\ f.node.children[2].selected = <<f.node.selected[2]>>

-----------------------------------------------------------------------------
(* Properties of the grid case, under Spec *)

\* the charts of the spec, each with the rows and the facet value its chart
\* case is called with
ChartCalls ==
    IF olliVisSpec.type = "chart"
    THEN <<[chart |-> olliVisSpec, selected |-> olliVisSpec.data, facetValue |-> Undefined]>>
    ELSE IF olliVisSpec.type = "facetedChart"
    THEN [f \in 1..Len(olliVisSpec.charts) |->
             [chart |-> olliVisSpec.charts[f][2],
              selected |-> filterFacet(olliVisSpec.data, olliVisSpec.facetedField,
                                       olliVisSpec.charts[f][1]),
              facetValue |-> Str(olliVisSpec.charts[f][1])]]
    ELSE <<>>

\* the chart case gets as far as the grid: the chart asks for one and the
\* axis and legend children before it are built
GridExpanded(c) ==
    /\ hasGrid(c.chart)
    /\ \A k \in 1..(Len(c.chart.axes) + Len(c.chart.legends)) :
          olliVisSpecToNode(
              chartCalls(filteredAxes(c.chart), c.selected, c.chart, c.facetValue).calls[k].type,
              c.selected, Null, c.chart, getFieldsUsedForChart(olliVisSpec), c.facetValue,
              Undefined,
              chartCalls(filteredAxes(c.chart), c.selected, c.chart, c.facetValue).calls[k].guide,
              Undefined, Undefined, Undefined, <<>>) # Thrown

AxesOriented(chart, orient) == SelectSeq(chart.axes, LAMBDA a : a.axisType = orient)

\* C26: once a tree was asked for, every chart whose grid is expanded has
\* exactly one x-oriented and exactly one y-oriented axis, so both lookups of
\* the grid case find their axis
C26_GridHasOneAxisPerOrientation ==
    tree # NotCalled =>
        \A c \in 1..Len(ChartCalls) :
            GridExpanded(ChartCalls[c]) =>
                /\ Len(AxesOriented(ChartCalls[c].chart, "x")) = 1
                /\ Len(AxesOriented(ChartCalls[c].chart, "y")) = 1
                /\ findAxis(ChartCalls[c].chart, "x") # Undefined
                /\ findAxis(ChartCalls[c].chart, "y") # Undefined

-----------------------------------------------------------------------------
(* Properties of the children token, under Spec *)

\* the title, or else the field, of the axis each xAxis / yAxis child of a
\* chart node was built from, in child order
ShownAxisNames(c) ==
    [k \in 1..Len(AxisChildren(c.node)) |->
        IF filteredAxes(c.chart)[k].title = Undefined
        THEN filteredAxes(c.chart)[k].field
        ELSE filteredAxes(c.chart)[k].title.str]

RECURSIVE QuotedList(_, _)
QuotedList(names, sep) ==
    IF Len(names) = 0 THEN ""
    ELSE IF Len(names) = 1 THEN "\"" \o names[1] \o "\""
    ELSE "\"" \o names[1] \o "\"" \o sep \o QuotedList(Tail(names), sep)

ChildrenText(names) ==
    IF Len(names) = 1
    THEN <<"axis " \o names[1], "with axis " \o names[1]>>
    ELSE <<"axes " \o QuotedList(names, ", "), "with axes " \o QuotedList(names, " and ")>>

ChartWithoutAxes == olliVisSpec.type = "chart" /\ Len(olliVisSpec.axes) = 0

\* C27: the children token of every chart node names the axes of its xAxis
\* and yAxis children, in child order, as "axis T" for one child and as
\* "axes ..." otherwise, and a chart without axes is built
C27_ChildrenTokenNamesShownAxes ==
    /\ \A c \in 1..Len(ChartNodes) :
          \E e \in 1..Len(ChartNodes[c].node.description) :
              /\ ChartNodes[c].node.description[e].token = "children"
              /\ ChartNodes[c].node.description[e].desc =
                    ChildrenText(ShownAxisNames(ChartNodes[c]))
    /\ (tree # NotCalled /\ ChartWithoutAxes) => Built

-----------------------------------------------------------------------------
(* Properties of the aggregate token, under Spec *)

\* the xAxis / yAxis node the chart case of c asks for its k-th kept axis,
\* as the aggregate function reads it
AxisNodeAsked(c, k) ==
    [type |-> IF filteredAxes(c.chart)[k].axisType = "x" THEN "xAxis" ELSE "yAxis",
     selected |-> c.selected]

\* C28: once a tree was asked for, the aggregate token of every axis node
\* that selects zero rows is produced without raising, as a pair for a
\* quantitative scale and as two empty fragments for any other scale
C28_AggregateOfNoRows ==
    tree # NotCalled =>
        \A c \in 1..Len(ChartCalls) :
            \A k \in 1..Len(filteredAxes(ChartCalls[c].chart)) :
                Len(ChartCalls[c].selected) = 0 =>
                    /\ ~tokenFunctionThrows("aggregate", AxisNodeAsked(ChartCalls[c], k),
                                            ChartCalls[c].chart,
                                            filteredAxes(ChartCalls[c].chart)[k])
                    /\ filteredAxes(ChartCalls[c].chart)[k].scaleType # "quantitative" =>
                          aggregateToken(AxisNodeAsked(ChartCalls[c], k),
                                         filteredAxes(ChartCalls[c].chart)[k]) = <<"", "">>

-----------------------------------------------------------------------------
(* The settings layer: presets, verbosity selects and resolved descriptions *)

MaxSaved == 1     \* most custom presets saved over all hierarchy levels
MaxMoved == 1     \* most verbosity selects moved from their first option

\* a bar chart and a faceted line chart, of one row each
SettingsSpecs ==
    {Chart(Titled(Shape("bar", <<XDt, YC>>, <<>>), "Sales"),
           <<Row(Num(1), Num(2), Str("A"))>>),
     FacetedChart(<<"A">>, Titled(Shape("line", <<XD>>, <<>>), "Lines"),
                  <<Row(Num(1), Num(2), Str("A"))>>)}

\* a 'settingsData' item stored by an earlier page: the tokens of its presets
\* are in an order of their own, at mixed lengths, and the datapoint preset
\* lists a token that no datapoint description has
reorderedSettingsData ==
    [facet |-> <<Preset("high", <<<<"children", 0>>, <<"name", 1>>, <<"index", 1>>>>),
                 Preset("low", <<<<"name", 0>>>>)>>,
     axis |-> <<Preset("low", <<<<"type", 0>>, <<"name", 0>>>>),
                Preset("high", <<<<"aggregate", 1>>, <<"data", 1>>, <<"parent", 1>>,
                                 <<"name", 0>>>>)>>,
     section |-> <<Preset("high", <<<<"size", 0>>, <<"parent", 1>>, <<"data", 1>>,
                                    <<"index", 0>>>>),
                   Preset("low", <<<<"data", 0>>>>)>>,
     datapoint |-> <<Preset("high", <<<<"parent", 0>>, <<"size", 1>>, <<"data", 1>>>>),
                     Preset("low", <<<<"data", 0>>>>)>>]

StoredSettings == {defaultSettingsData, reorderedSettingsData}

PresetNames(settings, level) == {settings[level][i].name : i \in 1..Len(settings[level])}

\* the levels that have a saved preset of the user
NumSaved(settings) ==
    Cardinality({level \in SettingsLevels : "mine" \in PresetNames(settings, level)})

\* the selects that show another option than their first
NumMoved(settings, selects) ==
    Cardinality({level \in SettingsLevels :
                    selects[level].exists /\ selects[level].value # settings[level][1].name})

\* the values of the off / short / long selects of the custom menu, one per
\* token of the level, in the order of hierarchyLevelToTokens
CustomChoices(level) ==
    {[i \in 1..Len(hierarchyLevelToTokens[level]) |-> "long"],
     [i \in 1..Len(hierarchyLevelToTokens[level]) |-> IF i = 1 THEN "off" ELSE "short"],
     [i \in 1..Len(hierarchyLevelToTokens[level]) |->
         IF i = Len(hierarchyLevelToTokens[level]) THEN "long" ELSE "off"],
     [i \in 1..Len(hierarchyLevelToTokens[level]) |-> "off"]}

\* the custom menu of a level when Save is pressed: the tokens of its
\* items in document order and the value of each item's select.  The items
\* start in the order of hierarchyLevelToTokens and alt+ArrowLeft / ArrowRight
\* move them; the last menu has them moved into the opposite order
CustomMenus(level) ==
    {[tokens |-> hierarchyLevelToTokens[level], choices |-> choices] :
        choices \in CustomChoices(level)}
    \cup {[tokens |-> [i \in 1..Len(hierarchyLevelToTokens[level]) |->
                         hierarchyLevelToTokens[level][Len(hierarchyLevelToTokens[level]) + 1 - i]],
            choices |-> [i \in 1..Len(hierarchyLevelToTokens[level]) |-> "long"]]}

InitSettings ==
    /\ olliVisSpec \in SettingsSpecs
    /\ tree = NotCalled
    /\ values = <<>>
    /\ intervals = NotCalled
    /\ settingsData \in StoredSettings
    /\ dropdowns = [level \in SettingsLevels |-> NoElement]
    /\ described = NotCalled
    /\ keylog = ""
    /\ sinceLastPress = 0
    /\ focus = 1
    /\ handled = NotCalled

\* the element olli() returned is put into the document: each select shows
\* its first option
AttachMenu ==
    /\ Built
    /\ \A level \in SettingsLevels : ~dropdowns[level].exists
    /\ dropdowns' = [level \in SettingsLevels |-> Select(settingsData[level][1].name)]
    /\ UNCHANGED <<olliVisSpec, tree, values, intervals, settingsData, described>>
    /\ UNCHANGED keyVars

\* the user picks an option of a verbosity select
SelectVerbosity ==
    /\ Built
    /\ \E level \in SettingsLevels :
         /\ dropdowns[level].exists
         /\ \E value \in PresetNames(settingsData, level) \cup {"custom"} :
              /\ NumMoved(settingsData, [dropdowns EXCEPT ![level] = Select(value)]) <= MaxMoved
              /\ dropdowns' = [dropdowns EXCEPT ![level] = Select(value)]
    /\ UNCHANGED <<olliVisSpec, tree, values, intervals, settingsData, described>>
    /\ UNCHANGED keyVars

\* the Save button of a custom menu
SavePreset ==
    /\ Built
    /\ \E level \in SettingsLevels, presetName \in {"mine"} :
         /\ dropdowns[level].exists
         /\ dropdowns[level].value = "custom"
         /\ presetName \in PresetNames(settingsData, level) \/ NumSaved(settingsData) < MaxSaved
         /\ \E menu \in CustomMenus(level) :
              /\ settingsData' = [settingsData EXCEPT ![level] =
                     setPreset(settingsData[level], presetName,
                               getCurrentCustom(menu.tokens, menu.choices))]
              /\ dropdowns' = [dropdowns EXCEPT ![level] = Select(presetName)]
    /\ UNCHANGED <<olliVisSpec, tree, values, intervals, described>>
    /\ UNCHANGED keyVars

\* the description of a node is resolved, to render it or to render it again
DescribeNode ==
    /\ Built
    /\ \E k \in 1..Len(TreeNodes) :
         /\ described' = getDescriptionWithSettings(TreeNodes[k], settingsData, dropdowns)
         /\ tree' = treeAfterDescription(tree, TreeNodes[k])
    /\ UNCHANGED <<olliVisSpec, values, intervals, settingsData, dropdowns>>
    /\ UNCHANGED keyVars

NextSettings ==
    \/ BuildTree
    \/ AttachMenu
    \/ SelectVerbosity
    \/ SavePreset
    \/ DescribeNode

SpecSettings == InitSettings /\ [][NextSettings]_vars

-----------------------------------------------------------------------------
(* The key handler of the tree: key log, verbosity and token commands *)

MaxIdle == 3

KeysSpecs ==
    {FacetedChart(<<"A">>, Titled(Shape("line", <<XD>>, <<>>), "Lines"),
                  <<Row(Num(1), Num(2), Str("A"))>>)}

\* the 'settingsData' item after the user saved, for the axes, a preset that
\* leaves the name out
savedSettingsData ==
    [defaultSettingsData EXCEPT !.axis =
        setPreset(@, "mine",
                  getCurrentCustom(hierarchyLevelToTokens["axis"],
                                   <<"off", "short", "long", "off", "off", "off">>))]

\* what the user types: a command, a command after another key, the key of
\* the menu
Phrases == {"a.name", "lalow", "m"}

PhraseParts(p) == {SubSeq(p, i, j) : i \in 1..Len(p), j \in 1..Len(p)}

Keys == {part \in UNION {PhraseParts(p) : p \in Phrases} : Len(part) = 1}

KeyLogs == UNION {PhraseParts(p) : p \in Phrases}

\* the tree is built and in the document with its menu, and the user has
\* picked an option for the axes
InitKeys ==
    /\ olliVisSpec \in KeysSpecs
    /\ tree = olliVisSpecToTree(olliVisSpec)
    /\ values = <<>>
    /\ intervals = NotCalled
    /\ settingsData = savedSettingsData
    /\ \E value \in PresetNames(settingsData, "axis") \cup {"custom"} :
         dropdowns = [level \in SettingsLevels |->
                         IF level = "axis" THEN Select(value)
                         ELSE Select(settingsData[level][1].name)]
    /\ described = NotCalled
    /\ keylog = ""
    /\ sinceLastPress = 0
    /\ focus = 1
    /\ handled = NotCalled

\* a second passes without a key press
Tick ==
    /\ sinceLastPress < MaxIdle
    /\ sinceLastPress' = sinceLastPress + 1
    /\ UNCHANGED <<olliVisSpec, tree, values, intervals, settingsData, dropdowns, described>>
    /\ UNCHANGED <<keylog, focus, handled>>

\* the user moves to another item of the tree, or back from the menu
MoveFocus ==
    /\ \E k \in 1..Len(TreeNodes) : focus' = k
    /\ UNCHANGED <<olliVisSpec, tree, values, intervals, settingsData, dropdowns, described>>
    /\ UNCHANGED <<keylog, sinceLastPress, handled>>

\* a keydown event on the tree: ctrl+m first moves the focus to the menu
\* and empties the key log.  The keys typed within two seconds of each other
\* stay within Phrases; any key may come after a longer pause
KeyDown ==
    /\ focus > 0
    /\ \E key \in Keys, ctrlKey \in BOOLEAN :
         /\ keylog \o key \in KeyLogs \/ sinceLastPress > TwoSeconds
         /\ ctrlKey => key = "m"
         /\ handled' =
              [key |-> key, ctrlKey |-> ctrlKey,
               status |-> keydown(IF ctrlKey /\ key = "m" THEN "" ELSE keylog, sinceLastPress,
                                  key, TreeNodes[focus], settingsData, dropdowns).status,
               spoken |-> keydown(IF ctrlKey /\ key = "m" THEN "" ELSE keylog, sinceLastPress,
                                  key, TreeNodes[focus], settingsData, dropdowns).spoken]
         /\ keylog' = keydown(IF ctrlKey /\ key = "m" THEN "" ELSE keylog, sinceLastPress,
                              key, TreeNodes[focus], settingsData, dropdowns).keylog
         /\ dropdowns' = keydown(IF ctrlKey /\ key = "m" THEN "" ELSE keylog, sinceLastPress,
                                 key, TreeNodes[focus], settingsData, dropdowns).selects
         /\ focus' = IF ctrlKey /\ key = "m" THEN 0 ELSE focus
    /\ sinceLastPress' = 0
    /\ UNCHANGED <<olliVisSpec, tree, values, intervals, settingsData, described>>

NextKeys ==
    \/ Tick
    \/ MoveFocus
    \/ KeyDown

SpecKeys == InitKeys /\ [][NextKeys]_vars

\* the settings layer at work on a built tree: commands are typed, presets
\* saved and descriptions resolved
NextSession ==
    \/ MoveFocus
    \/ KeyDown
    \/ SavePreset
    \/ DescribeNode

SpecSession == InitKeys /\ [][NextSession]_vars

-----------------------------------------------------------------------------
(* Properties of the resolved descriptions, under SpecSettings *)

HierarchyLevelOf(node) == nodeTypeToHierarchyLevel[node.type]

\* the name of the preset in force for a level: the option its select shows,
\* high while the select is not in the document
ActivePresetName(level) ==
    IF dropdowns[level].exists THEN dropdowns[level].value ELSE "high"

HasActivePreset(level) == ActivePresetName(level) \in PresetNames(settingsData, level)

ActivePreset(level) ==
    settingsData[level][CHOOSE i \in 1..Len(settingsData[level]) :
                           settingsData[level][i].name = ActivePresetName(level)].tokens

HasToken(node, token) ==
    \E k \in 1..Len(node.description) : node.description[k].token = token

\* the fragment a [token, length] pair of a preset asks of a node
FragmentOf(node, pair) ==
    IF HasToken(node, pair[1]) THEN DescOf(node, pair[1])[pair[2] + 1] ELSE ""

LetterPairs ==
    {<<"a", "A">>, <<"b", "B">>, <<"c", "C">>, <<"d", "D">>, <<"e", "E">>, <<"f", "F">>,
     <<"g", "G">>, <<"h", "H">>, <<"i", "I">>, <<"j", "J">>, <<"k", "K">>, <<"l", "L">>,
     <<"m", "M">>, <<"n", "N">>, <<"o", "O">>, <<"p", "P">>, <<"q", "Q">>, <<"r", "R">>,
     <<"s", "S">>, <<"t", "T">>, <<"u", "U">>, <<"v", "V">>, <<"w", "W">>, <<"x", "X">>,
     <<"y", "Y">>, <<"z", "Z">>}

\* a non-empty fragment with its first character in upper case
UpperFirst(s) ==
    IF \E p \in LetterPairs : p[1] = SubSeq(s, 1, 1)
    THEN (CHOOSE p \in LetterPairs : p[1] = SubSeq(s, 1, 1))[2] \o SubSeq(s, 2, Len(s))
    ELSE s

\* the non-empty fragments of a preset, in the order of the preset
ShownFragments(node, preset) ==
    SelectSeq([i \in 1..Len(preset) |-> FragmentOf(node, preset[i])], LAMBDA f : f # "")

RECURSIVE Sentences(_)
Sentences(fragments) ==
    IF Len(fragments) = 0 THEN ""
    ELSE IF Len(fragments) = 1 THEN UpperFirst(fragments[1])
    ELSE UpperFirst(fragments[1]) \o ". " \o Sentences(Tail(fragments))

ExpectedDescription(node, preset) == Sentences(ShownFragments(node, preset)) \o "."

\* a step that resolves the description of a node below the root
ResolvesBelowRoot ==
    /\ settingsData' = settingsData
    /\ dropdowns' = dropdowns
    /\ tree' = tree
    /\ described'.status = "returned"
    /\ HierarchyLevelOf(described'.node) # "root"

\* a step in which the resolution of a description raises
ResolutionFails ==
    /\ settingsData' = settingsData
    /\ dropdowns' = dropdowns
    /\ tree' = tree
    /\ described'.status = "thrown"

\* C20: the description resolved for a node below the root is made of the
\* fragments of the tokens of the active preset of the node's level, in the
\* order of the preset and at its lengths, the empty ones left out, each
\* with its first character in upper case, joined by ". " and ended by one
\* period; a token the preset does not list contributes nothing; the
\* resolution raises only while a select shows an option that names no preset
C20_DescriptionFollowsActivePreset ==
    [][/\ ResolvesBelowRoot =>
          /\ HasActivePreset(HierarchyLevelOf(described'.node))
          /\ described'.text =
                ExpectedDescription(described'.node,
                                    ActivePreset(HierarchyLevelOf(described'.node)))
       /\ ResolutionFails => \E level \in SettingsLevels : ~HasActivePreset(level)]_vars

\* an x-axis resolved under a stored preset that asks for the aggregate, the
\* data at full length, the parent and the short name: the two empty
\* fragments are left out and the data comes before the name
C20_Witness ==
    /\ described.status = "returned"
    /\ described.node.type = "xAxis"
    /\ DescOf(described.node, "aggregate") = <<"", "">>
    /\ DescOf(described.node, "parent") = <<"", "">>
    /\ DescOf(described.node, "data") = <<"2 values: A, B", "with 2 values: \"A\" and \"B\"">>
    /\ described.node.description[1].token = "name"
    /\ described.text = "With 2 values: \"A\" and \"B\". X-axis titled \"Category\"."

-----------------------------------------------------------------------------
(* Properties of the key handler, under SpecKeys *)

\* a step of the keydown handler: it alone changes the key log, and every
\* run of it does
KeyStep == keylog' # keylog

EndsWith(log, command) ==
    /\ Len(log) >= Len(command)
    /\ SubSeq(log, Len(log) - Len(command) + 1, Len(log)) = command

\* the key of the step completes, within two seconds of the keys before it,
\* the command of a token that the focused node has
TokenCommandTyped(token) ==
    /\ KeyStep
    /\ focus > 0
    /\ ~handled'.ctrlKey
    /\ sinceLastPress <= TwoSeconds
    /\ EndsWith(keylog \o handled'.key, "." \o token)
    /\ \E k \in 1..Len(TreeNodes[focus].description) :
          TreeNodes[focus].description[k].token = token

\* the preset in force for the focused node lists the token
ActivePresetLists(token) ==
    /\ HierarchyLevelOf(TreeNodes[focus]) \in SettingsLevels
    /\ ActivePresetName(HierarchyLevelOf(TreeNodes[focus]))
          \in PresetNames(settingsData, HierarchyLevelOf(TreeNodes[focus]))
    /\ \E i \in 1..Len(ActivePreset(HierarchyLevelOf(TreeNodes[focus]))) :
          ActivePreset(HierarchyLevelOf(TreeNodes[focus]))[i][1] = token

\* the fragment of the token at the length of its first pair in the preset
FragmentAtActiveLength(token) ==
    LET preset == ActivePreset(HierarchyLevelOf(TreeNodes[focus]))
        i == CHOOSE i \in 1..Len(preset) :
                preset[i][1] = token /\ \A j \in 1..(i - 1) : preset[j][1] # token
    IN DescOf(TreeNodes[focus], token)[preset[i][2] + 1]

\* C29: a token command typed on a focused node that has the token never
\* raises and leaves the key log empty, whatever the node (the root too) and
\* whatever the preset (one that does not list the token too); when the
\* active preset of the node's level lists the token, the fragment spoken is
\* the one at the length the preset gives the token
C29_TokenCommandSpeaksFragment ==
    [][\A k \in 1..Len(tokenType) :
          TokenCommandTyped(tokenType[k]) =>
              /\ handled'.status = "returned"
              /\ keylog' = ""
              /\ ActivePresetLists(tokenType[k]) =>
                    /\ handled'.spoken # Undefined
                    /\ handled'.spoken.text = FragmentAtActiveLength(tokenType[k])]_vars

\* a preset name of a level whose command the key of the step completes
CommandTyped(level, name) ==
    /\ KeyStep
    /\ ~handled'.ctrlKey
    /\ sinceLastPress <= TwoSeconds
    /\ name \in PresetNames(settingsData, level)
    /\ EndsWith(keylog \o handled'.key, SubSeq(level, 1, 1) \o name)

-----------------------------------------------------------------------------
(* Properties of the description maps, under SpecSession *)

====
